---- MODULE Spec2Model ----
(***************************************************************************)
(* Partial borrows (wdanilo/borrow): the field-capability lattice          *)
(* (Acquire), the derive-generated reference-struct operations             *)
(* (as_refs_mut, split, partial_borrow, borrow_<field>) and the values     *)
(* they produce, for the struct Graph { nodes, edges, groups }.            *)
(*                                                                         *)
(* Rust decides at compile time which narrowings exist (trait resolution)  *)
(* and which values may be used (the borrow checker).  The model keeps     *)
(* that decision as the guard of each action: an operation the compiler    *)
(* rejects is an action that is not enabled.                               *)
(***************************************************************************)
EXTENDS Integers, Sequences, FiniteSets, TLC

VARIABLES
    decl,   \* the derive input: the field names of the struct, in order
    vals,   \* id -> reference-struct value (or a Field moved out of one)
    mem,    \* the original struct: field name -> contents
    pc,     \* position of the running program (scenario specifications)
    q,      \* the inputs and locals of the scenario that is run
    trackers,       \* id -> the usage trackers of that value
    needed,         \* the shared cells of needed usage (Arc<Cell<OptUsage>>)
    data,           \* the UsageTrackerData objects (behind Rc)
    stderr,         \* what was printed
    WARNING_COUNT   \* each thread's warning count (a thread_local)

tracking == <<trackers, needed, data, stderr, WARNING_COUNT>>

vars == <<decl, vals, mem, pc, q, trackers, needed, data, stderr, WARNING_COUNT>>

\* ------------------------------------------------------------------ bounds

\* Depth of the stack of reference-struct values.
MaxRefs == 4

\* Longest selector list written in p!(<...> Graph).
MaxSelectors == 3

\* Largest graph (number of nodes) the graph example is run on.
MaxNodes == 3

\* Discrepancies emitted in one process in the scenario of the warning cap.
MaxDrops == 150

\* The threads of the process; all but the scenarios of the warning cap run
\* on the main thread alone.
Threads == {"main", "worker"}
MainThread == "main"

\* ------------------------------------------------------------ capabilities

\* The structs the documentation derives Partial for.
Graph2 == <<"nodes", "edges">>
Graph3 == <<"nodes", "edges", "groups">>

\* get_fields: the named fields of the derive input.
Fields == {decl[i] : i \in 1..Len(decl)}

\* The three instantiations of a field's type parameter.
Caps == {"Hidden", "Ref", "Mut"}

Ids == 1..MaxRefs

\* The borrow of the original struct taken by as_refs_mut(&mut self).
OwnerLt == 0

\* `Hidden`: a unit marker, it holds no reference.
HiddenSlot == [cap |-> "Hidden", ref |-> "none", lt |-> -1]

\* A slot holding `&'lt T` or `&'lt mut T` to field `ref` of the original.
RefSlot(cap, ref, lt) == [cap |-> cap, ref |-> ref, lt |-> lt]

AllCaps(c) == [f \in Fields |-> c]

CapVectors == [Fields -> Caps]

\* ----------------------------------------------------------------- Acquire

\* The impls of `Acquire<'s, This, Target> for AcquireMarker`, one record per
\* impl.  tlt / rlt name the lifetime of the target / rest reference:
\* "s" is the borrow of the source taken by the narrowing (`&'s mut self`),
\* "t" is the lifetime already carried by the source slot, "none" for Hidden.
\* Variants of the table, each with one entry changed.
AcquireImpls_MutKeepsMut ==
    { [this |-> "Mut",    target |-> "Hidden", rest |-> "Mut",    tlt |-> "none", rlt |-> "s"],
      [this |-> "Ref",    target |-> "Hidden", rest |-> "Ref",    tlt |-> "none", rlt |-> "t"],
      [this |-> "Hidden", target |-> "Hidden", rest |-> "Hidden", tlt |-> "none", rlt |-> "none"],
      [this |-> "Mut",    target |-> "Mut",    rest |-> "Mut",    tlt |-> "s",    rlt |-> "s"],
      [this |-> "Mut",    target |-> "Ref",    rest |-> "Ref",    tlt |-> "s",    rlt |-> "s"],
      [this |-> "Ref",    target |-> "Ref",    rest |-> "Ref",    tlt |-> "t",    rlt |-> "t"] }

AcquireImpls_RefFromHidden ==
    { [this |-> "Mut",    target |-> "Hidden", rest |-> "Mut",    tlt |-> "none", rlt |-> "s"],
      [this |-> "Ref",    target |-> "Hidden", rest |-> "Ref",    tlt |-> "none", rlt |-> "t"],
      [this |-> "Hidden", target |-> "Hidden", rest |-> "Hidden", tlt |-> "none", rlt |-> "none"],
      [this |-> "Hidden", target |-> "Ref",    rest |-> "Hidden", tlt |-> "t",    rlt |-> "none"],
      [this |-> "Mut",    target |-> "Mut",    rest |-> "Hidden", tlt |-> "s",    rlt |-> "none"],
      [this |-> "Mut",    target |-> "Ref",    rest |-> "Ref",    tlt |-> "s",    rlt |-> "s"],
      [this |-> "Ref",    target |-> "Ref",    rest |-> "Ref",    tlt |-> "t",    rlt |-> "t"] }

AcquireImpls_RefLeavesMut ==
    { [this |-> "Mut",    target |-> "Hidden", rest |-> "Mut",    tlt |-> "none", rlt |-> "s"],
      [this |-> "Ref",    target |-> "Hidden", rest |-> "Ref",    tlt |-> "none", rlt |-> "t"],
      [this |-> "Hidden", target |-> "Hidden", rest |-> "Hidden", tlt |-> "none", rlt |-> "none"],
      [this |-> "Mut",    target |-> "Mut",    rest |-> "Hidden", tlt |-> "s",    rlt |-> "none"],
      [this |-> "Mut",    target |-> "Ref",    rest |-> "Mut",    tlt |-> "s",    rlt |-> "s"],
      [this |-> "Ref",    target |-> "Ref",    rest |-> "Ref",    tlt |-> "t",    rlt |-> "t"] }

AcquireImpls_RefRestIsMut ==
    { [this |-> "Mut",    target |-> "Hidden", rest |-> "Mut",    tlt |-> "none", rlt |-> "s"],
      [this |-> "Ref",    target |-> "Hidden", rest |-> "Mut",    tlt |-> "none", rlt |-> "t"],
      [this |-> "Hidden", target |-> "Hidden", rest |-> "Hidden", tlt |-> "none", rlt |-> "none"],
      [this |-> "Mut",    target |-> "Mut",    rest |-> "Hidden", tlt |-> "s",    rlt |-> "none"],
      [this |-> "Mut",    target |-> "Ref",    rest |-> "Ref",    tlt |-> "s",    rlt |-> "s"],
      [this |-> "Ref",    target |-> "Ref",    rest |-> "Ref",    tlt |-> "t",    rlt |-> "t"] }

AcquireImpls ==
    { [this |-> "Mut",    target |-> "Hidden", rest |-> "Mut",    tlt |-> "none", rlt |-> "s"],
      [this |-> "Ref",    target |-> "Hidden", rest |-> "Ref",    tlt |-> "none", rlt |-> "t"],
      [this |-> "Hidden", target |-> "Hidden", rest |-> "Hidden", tlt |-> "none", rlt |-> "none"],
      [this |-> "Mut",    target |-> "Mut",    rest |-> "Hidden", tlt |-> "s",    rlt |-> "none"],
      [this |-> "Mut",    target |-> "Ref",    rest |-> "Ref",    tlt |-> "s",    rlt |-> "s"],
      [this |-> "Ref",    target |-> "Ref",    rest |-> "Ref",    tlt |-> "t",    rlt |-> "t"] }

\* Trait resolution: is there an impl for this (This, Target) pair?
AcquireDefined(this, target) ==
    \E i \in AcquireImpls : i.this = this /\ i.target = target

\* The impl trait resolution selects (coherence: at most one matches).
AcquireImpl(this, target) ==
    CHOOSE i \in AcquireImpls : i.this = this /\ i.target = target

\* A slip: the produced slot takes the reference of the struct's first field.
AcquiredSlot_FirstField(cap, lt, slot, src) ==
    IF cap = "Hidden" THEN HiddenSlot
    ELSE RefSlot(cap, decl[1], IF lt = "s" THEN src ELSE slot.lt)

\* The reference a produced slot holds: `this.value_no_usage_tracking`,
\* i.e. the referent of the source slot, under the impl's lifetime.
AcquiredSlot(cap, lt, slot, src) ==
    IF cap = "Hidden" THEN HiddenSlot
    ELSE RefSlot(cap, slot.ref, IF lt = "s" THEN src ELSE slot.lt)

\* Acquire::acquire(this) -> (Field<Target>, Field<Rest>); src is the value
\* whose borrow `'s` the call takes.
acquire(slot, target, src) ==
    LET i == AcquireImpl(slot.cap, target)
    IN  [target |-> AcquiredSlot(i.target, i.tlt, slot, src),
         rest   |-> AcquiredSlot(i.rest, i.rlt, slot, src)]

\* ------------------------------------------------------------------ values

NoVal ==
    [st |-> "none", half |-> "none", src |-> -1, anc |-> {}, narrowed |-> FALSE,
     held |-> AllCaps("Hidden"), req |-> AllCaps("Hidden"),
     slots |-> [f \in Fields |-> HiddenSlot]]

CapsOf(v) == [f \in Fields |-> v.slots[f].cap]

Live(vs, i) == vs[i].st = "live"

\* The borrow `lt` is still in use: a live value holds a reference under it.
Borrowed(vs, lt) ==
    \E j \in Ids : Live(vs, j) /\ \E f \in Fields :
        vs[j].slots[f].cap # "Hidden" /\ vs[j].slots[f].lt = lt

\* The borrow checker: a value can be used (narrowed, dereferenced, moved,
\* dropped) while no live value holds a reference taken through `&mut` it.
Usable(vs, i) == Live(vs, i) /\ ~Borrowed(vs, i)

\* What is left of a value that went out of scope.
Dropped == [NoVal EXCEPT !.st = "dropped"]

\* Values live on the stack: a new one goes above the topmost live one.
Top(vs) ==
    IF \E i \in Ids : Live(vs, i)
    THEN CHOOSE i \in Ids : Live(vs, i) /\ \A j \in Ids : Live(vs, j) => j <= i
    ELSE 0

\* --------------------------------------------------------------- AsRefsMut

\* AsRefsMut::as_refs_mut(&mut self): every field as `&mut`.
as_refs_mut ==
    [st |-> "live", half |-> "root", src |-> OwnerLt,
     anc |-> {}, narrowed |-> FALSE,
     held |-> AllCaps("Mut"), req |-> AllCaps("Mut"),
     slots |-> [f \in Fields |-> RefSlot("Mut", f, OwnerLt)]]

\* ------------------------------------------------------------- IntoPartial

\* The where-clause of `impl IntoPartial<Target> for StructRef`: one Acquire
\* bound per field.
IntoPartialDefined(held, req) ==
    \A f \in Fields : AcquireDefined(held[f], req[f])

\* A slip: the two halves are returned in the wrong order.
into_split_impl_Swapped(v, src, req) ==
    LET a == [f \in Fields |-> acquire(v.slots[f], req[f], src)]
        mk(half, slots) ==
            [st |-> "live", half |-> half, src |-> src,
             anc |-> v.anc \cup {src}, narrowed |-> FALSE,
             held |-> CapsOf(v), req |-> req, slots |-> slots]
    IN  [target |-> mk("target", [f \in Fields |-> a[f].rest]),
         rest   |-> mk("rest",   [f \in Fields |-> a[f].target])]

\* IntoPartial::into_split_impl: Acquire field by field.
into_split_impl(v, src, req) ==
    LET a == [f \in Fields |-> acquire(v.slots[f], req[f], src)]
        mk(half, slots) ==
            [st |-> "live", half |-> half, src |-> src,
             anc |-> v.anc \cup {src}, narrowed |-> FALSE,
             held |-> CapsOf(v), req |-> req, slots |-> slots]
    IN  [target |-> mk("target", [f \in Fields |-> a[f].target]),
         rest   |-> mk("rest",   [f \in Fields |-> a[f].rest])]

\* A slip: the narrowing takes the source by value.
split_impl_Consuming(vs, i, t, r, req) ==
    LET s == into_split_impl(vs[i], i, req)
    IN  [vs EXCEPT ![i] = Dropped, ![t] = s.target, ![r] = s.rest]

\* Partial::split_impl(&'s mut self): narrow a clone of the references; the
\* source itself is only borrowed and stays what it was.
split_impl(vs, i, t, r, req) ==
    LET s == into_split_impl(vs[i], i, req)
    IN  [vs EXCEPT ![t] = s.target, ![r] = s.rest]

\* PartialHelper::partial_borrow_or_eq: `self.split_impl().0`; the rest half
\* is a temporary that is gone when the call returns.
partial_borrow_or_eq(vs, i, t, req) ==
    LET s == into_split_impl(vs[i], i, req)
    IN  [vs EXCEPT ![t] = s.target]

\* NotEqFields over the field lists of source and target: an impl exists for
\* a pair of heads of different kinds, and for equal heads when the tails
\* are NotEqFields; there is no impl for the empty lists.
RECURSIVE NotEqFields(_, _)
NotEqFields(source, target) ==
    IF source = <<>> \/ target = <<>> THEN FALSE
    ELSE IF Head(source) # Head(target) THEN TRUE
    ELSE NotEqFields(Tail(source), Tail(target))

\* NotEq<Target> for Source: NotEqFields of the two field lists.
NotEq(held, req) ==
    NotEqFields([k \in 1..Len(decl) |-> held[decl[k]]],
                [k \in 1..Len(decl) |-> req[decl[k]]])

\* PartialHelper::partial_borrow: `self.partial_borrow_or_eq()`, under the
\* bound `Self: Partial<'s, Target>` alone.
PartialBorrowDefined(held, req) == IntoPartialDefined(held, req)

partial_borrow(vs, i, t, req) == partial_borrow_or_eq(vs, i, t, req)

\* A slip: borrow_<field>_mut asks for the type borrow_<field> asks for.
BorrowTarget_AlwaysRef(g, cap) == [f \in Fields |-> IF f = g THEN "Ref" ELSE "Hidden"]

\* The target type of borrow_<field>[_mut]: Hidden everywhere but field g.
BorrowTarget(g, cap) == [f \in Fields |-> IF f = g THEN cap ELSE "Hidden"]

\* borrow_<field>[_mut]: `(split.0.<field>, split.1)`; the other fields of
\* split.0 are dropped with it.
borrow_field(vs, i, t, r, g, cap) ==
    LET s == into_split_impl(vs[i], i, BorrowTarget(g, cap))
    IN  [vs EXCEPT
            ![t] = [s.target EXCEPT
                       !.half = "field",
                       !.slots = [f \in Fields |->
                                     IF f = g THEN s.target.slots[f] ELSE HiddenSlot]],
            ![r] = s.rest]

\* ----------------------------------------------------------------- actions

\* Bookkeeping: value i has been narrowed.
Narrowed(vs, i) == [vs EXCEPT ![i].narrowed = TRUE]

\* No reference struct exists yet and nothing was printed.
InitTracking ==
    /\ trackers = [i \in Ids |-> [st |-> "none"]]
    /\ needed = <<>>
    /\ data = <<>>
    /\ stderr = <<>>
    /\ WARNING_COUNT = [t \in Threads |-> 0]

Init ==
    /\ InitTracking
    /\ decl = Graph2
    /\ vals = [i \in Ids |-> NoVal]
    /\ mem = [f \in Fields |-> 0]
    /\ pc = "free"
    /\ q = [phase |-> "none"]

AsRefsMut ==
    /\ ~Borrowed(vals, OwnerLt)
    /\ Top(vals) + 1 \in Ids
    /\ vals' = [vals EXCEPT ![Top(vals) + 1] = as_refs_mut]
    /\ UNCHANGED <<decl, mem, pc, q, tracking>>

IsStruct(vs, i) == vs[i].half \in {"root", "target", "rest"}

Split(i, req) ==
    /\ Usable(vals, i) /\ IsStruct(vals, i)
    /\ IntoPartialDefined(CapsOf(vals[i]), req)
    /\ Top(vals) + 2 \in Ids
    /\ vals' = split_impl(Narrowed(vals, i), i, Top(vals) + 1, Top(vals) + 2, req)
    /\ UNCHANGED <<decl, mem, pc, q, tracking>>

PartialBorrow(i, req) ==
    /\ Usable(vals, i) /\ IsStruct(vals, i)
    /\ PartialBorrowDefined(CapsOf(vals[i]), req)
    /\ Top(vals) + 1 \in Ids
    /\ vals' = partial_borrow(Narrowed(vals, i), i, Top(vals) + 1, req)
    /\ UNCHANGED <<decl, mem, pc, q, tracking>>

PartialBorrowOrEq(i, req) ==
    /\ Usable(vals, i) /\ IsStruct(vals, i)
    /\ IntoPartialDefined(CapsOf(vals[i]), req)
    /\ Top(vals) + 1 \in Ids
    /\ vals' = partial_borrow_or_eq(Narrowed(vals, i), i, Top(vals) + 1, req)
    /\ UNCHANGED <<decl, mem, pc, q, tracking>>

BorrowField(i, g, cap) ==
    /\ Usable(vals, i) /\ IsStruct(vals, i)
    /\ IntoPartialDefined(CapsOf(vals[i]), BorrowTarget(g, cap))
    /\ Top(vals) + 2 \in Ids
    /\ vals' = borrow_field(Narrowed(vals, i), i, Top(vals) + 1, Top(vals) + 2, g, cap)
    /\ UNCHANGED <<decl, mem, pc, q, tracking>>

\* A value goes out of scope; a borrowed value cannot.  The stack shrinks to
\* the topmost value still alive.
drop(vs, i) ==
    LET d == [vs EXCEPT ![i] = Dropped]
    IN  [j \in Ids |-> IF j > Top(d) THEN NoVal ELSE d[j]]

DropRef(i) ==
    /\ Usable(vals, i)
    /\ vals' = drop(vals, i)
    /\ UNCHANGED <<decl, mem, pc, q, tracking>>

Next ==
    \/ AsRefsMut
    \/ \E i \in Ids, req \in CapVectors : Split(i, req)
    \/ \E i \in Ids, req \in CapVectors : PartialBorrow(i, req)
    \/ \E i \in Ids, req \in CapVectors : PartialBorrowOrEq(i, req)
    \/ \E i \in Ids, g \in Fields, cap \in {"Ref", "Mut"} : BorrowField(i, g, cap)
    \/ \E i \in Ids : DropRef(i)

Spec == Init /\ [][Next]_vars

\* ------------------------------------------------- the trait solver, asked

\* Every (source, target) pair of instantiations of GraphRef is put to the
\* solver, which answers whether `Source: IntoPartial<Target>` holds.
InitAcquire ==
    /\ InitTracking
    /\ decl = Graph3
    /\ vals = [i \in Ids |-> NoVal]
    /\ mem = [f \in Fields |-> 0]
    /\ pc = "free"
    /\ q \in [phase : {"asked"}, held : CapVectors, req : CapVectors,
              fieldOk : {[f \in Fields |-> FALSE]}, ok : {FALSE}]

Resolve ==
    /\ q.phase = "asked"
    /\ q' = [q EXCEPT !.phase = "answered",
                      !.fieldOk = [f \in Fields |-> AcquireDefined(q.held[f], q.req[f])],
                      !.ok = IntoPartialDefined(q.held, q.req)]
    /\ UNCHANGED <<decl, vals, mem, pc, tracking>>

NextAcquire == Resolve

SpecAcquire == InitAcquire /\ [][NextAcquire]_vars

\* ---------------------------------------------------------- usage tracking

MAX_WARNING_COUNT == 100

\* The heap the tracker operations work on, as one record.
\* count is the WARNING_COUNT of the thread that runs the operation.
HeapOf(t) ==
    [needed |-> needed, data |-> data, stderr |-> stderr, count |-> WARNING_COUNT[t]]

Heap == HeapOf(MainThread)

\* Option<Usage>: None < Some(Ref) < Some(Mut).
UsageOrd(u) == CASE u = "None" -> 0 [] u = "Ref" -> 1 [] u = "Mut" -> 2

UsageMax(a, b) == IF UsageOrd(a) >= UsageOrd(b) THEN a ELSE b

\* The order of str on the labels in use.
LabelOrd(l) == CASE l = "edges" -> 1 [] l = "groups" -> 2 [] l = "nodes" -> 3

RECURSIVE Join(_, _)
Join(s, sep) ==
    IF s = <<>> THEN ""
    ELSE IF Len(s) = 1 THEN s[1]
    ELSE s[1] \o sep \o Join(Tail(s), sep)

\* eprintln!("{msg}")
warning_no_count_check(msg, h) == [h EXCEPT !.stderr = Append(@, msg)]

\* A slip: the notice is printed every time the count is at or over the cap.
inc_and_check_warning_count_Repeating(h) ==
    [ok |-> h.count + 1 < MAX_WARNING_COUNT,
     h  |-> IF h.count + 1 >= MAX_WARNING_COUNT
            THEN warning_no_count_check(
                     [text |-> "Too many warnings, suppressing further ones."],
                     [h EXCEPT !.count = @ + 1])
            ELSE [h EXCEPT !.count = @ + 1]]

\* A slip: the warning that reaches the cap is still printed.
inc_and_check_warning_count_Inclusive(h) ==
    [ok |-> h.count + 1 <= MAX_WARNING_COUNT,
     h  |-> IF h.count + 1 = MAX_WARNING_COUNT
            THEN warning_no_count_check(
                     [text |-> "Too many warnings, suppressing further ones."],
                     [h EXCEPT !.count = @ + 1])
            ELSE [h EXCEPT !.count = @ + 1]]

\* Returns ok and the heap after the count was raised (and, at the cap,
\* the notice printed).
inc_and_check_warning_count(h) ==
    [ok |-> h.count + 1 < MAX_WARNING_COUNT,
     h  |-> IF h.count + 1 = MAX_WARNING_COUNT
            THEN warning_no_count_check(
                     [text |-> "Too many warnings, suppressing further ones."],
                     [h EXCEPT !.count = @ + 1])
            ELSE [h EXCEPT !.count = @ + 1]]

\* A slip: the message is printed whatever the count.
WarnIfOk_Always(msg, r) == warning_no_count_check(msg, r.h)

\* if inc_and_check_warning_count() { warning_no_count_check(msg) }
WarnIfOk(msg, r) == IF r.ok THEN warning_no_count_check(msg, r.h) ELSE r.h

warning(msg, h) == WarnIfOk(msg, inc_and_check_warning_count(h))

\* UsageTracker::new(): a fresh UsageTrackerData behind an Rc; loc is the
\* caller's file:line.  The new object is data[Len(data) + 1].
UsageTracker_new(loc, h) ==
    [h EXCEPT !.data = Append(@, [loc |-> loc, map |-> <<>>, rc |-> 1])]

\* UsageTracker::clone(): one more Rc handle.
UsageTracker_clone(t, h) == [h EXCEPT !.data[t].rc = @ + 1]

set_usage(t, label, usage, h) ==
    [h EXCEPT !.data[t].map = Append(@, [label |-> label, requested |-> usage.requested,
                                         needed |-> usage.needed])]

Labels(m) == [k \in 1..Len(m) |-> m[k].label]

\* A slip: the entries are left in the order they were recorded in.
SortByLabel_Unsorted(m) == m

\* sort() of the entries by label.
SortByLabel(m) == SortSeq(m, LAMBDA a, b : LabelOrd(a.label) < LabelOrd(b.label))

\* The entries with requested > needed and nothing needed.
NotUsed(map) ==
    Labels(SortByLabel(SelectSeq(map, LAMBDA e :
        UsageOrd(e.requested) > UsageOrd(e.needed) /\ e.needed = "None")))

\* The entries with requested > needed and something needed.
UsedAsRef(map) ==
    Labels(SortByLabel(SelectSeq(map, LAMBDA e :
        UsageOrd(e.requested) > UsageOrd(e.needed) /\ e.needed # "None")))

\* The entries something was needed of, as the selectors that ask for it.
Required(map) == SortByLabel(SelectSeq(map, LAMBDA e : e.needed # "None"))

\* A slip: the selector is written with the usage requested.
RequiredSelectors_AsRequested(required) ==
    [k \in 1..Len(required) |->
        IF required[k].requested = "Ref" THEN required[k].label
        ELSE "mut " \o required[k].label]

RequiredSelectors(required) ==
    [k \in 1..Len(required) |->
        IF required[k].needed = "Ref" THEN required[k].label
        ELSE "mut " \o required[k].label]

WarningBody(not_used, used_as_ref) ==
    (IF not_used # <<>>
     THEN "\n    Borrowed but not used: " \o Join(not_used, ", ") \o "."
     ELSE "")
    \o (IF used_as_ref # <<>>
        THEN "\n    Borrowed as mut but used as ref: " \o Join(used_as_ref, ", ") \o "."
        ELSE "")

\* A slip: the report is made even when no field was used.
Report_WithoutUse(loc, not_used, used_as_ref, out, h) ==
    IF not_used # <<>> \/ used_as_ref # <<>>
    THEN warning([text |-> "Warning [" \o loc \o "]:" \o WarningBody(not_used, used_as_ref)
                             \o "\n    To fix the issue, use: &<" \o Join(out, ", ") \o ">.",
                  loc |-> loc, not_used |-> not_used,
                  used_as_ref |-> used_as_ref, fix |-> out], h)
    ELSE h

\* The warning of one UsageTrackerData; besides the text printed, the
\* entry of stderr keeps the parts the text was made of.
Report(loc, not_used, used_as_ref, out, h) ==
    IF (not_used # <<>> \/ used_as_ref # <<>>) /\ out # <<>>
    THEN warning([text |-> "Warning [" \o loc \o "]:" \o WarningBody(not_used, used_as_ref)
                             \o "\n    To fix the issue, use: &<" \o Join(out, ", ") \o ">.",
                  loc |-> loc, not_used |-> not_used,
                  used_as_ref |-> used_as_ref, fix |-> out], h)
    ELSE h

\* impl Drop for UsageTrackerData
DropUsageTrackerData(t, h) ==
    Report(h.data[t].loc, NotUsed(h.data[t].map), UsedAsRef(h.data[t].map),
           RequiredSelectors(Required(h.data[t].map)), h)

\* A slip: the data is dropped with the first handle already.
UsageTracker_drop_Eager(t, h) ==
    DropUsageTrackerData(t, [h EXCEPT !.data[t].rc = @ - 1])

\* An Rc<RefCell<UsageTrackerData>> handle is dropped; the last one drops
\* the data.
UsageTracker_drop(t, h) ==
    IF h.data[t].rc = 1
    THEN DropUsageTrackerData(t, [h EXCEPT !.data[t].rc = 0])
    ELSE [h EXCEPT !.data[t].rc = @ - 1]

\* Option::None for parent_needed_usage and for tracker.
NoCell == 0
NoTracker == 0

\* FieldUsageTracker::new; `enabled` is Enabled::bool() of the marker type.
\* The fresh cell of needed usage is needed[Len(needed) + 1].
FieldUsageTracker_new(label, requested_usage, tracker, enabled, h) ==
    [ft |-> [label |-> label, requested_usage |-> requested_usage,
             needed_usage |-> Len(h.needed) + 1, parent_needed_usage |-> NoCell,
             disabled |-> FALSE, tracker |-> tracker, enabled |-> enabled],
     h  |-> [h EXCEPT !.needed = Append(@, "None")]]

new_child(self, requested_usage, tracker, enabled, h) ==
    [ft |-> [label |-> self.label, requested_usage |-> requested_usage,
             needed_usage |-> Len(h.needed) + 1,
             parent_needed_usage |-> self.needed_usage,
             disabled |-> FALSE, tracker |-> tracker, enabled |-> enabled],
     h  |-> [h EXCEPT !.needed = Append(@, "None")]]

\* A slip: the child is not disabled.
new_child_disabled_Enabled(self, enabled, h) ==
    [ft |-> [label |-> self.label, requested_usage |-> "Mut",
             needed_usage |-> Len(h.needed) + 1,
             parent_needed_usage |-> self.needed_usage,
             disabled |-> FALSE, tracker |-> NoTracker, enabled |-> enabled],
     h  |-> [h EXCEPT !.needed = Append(@, "None")]]

new_child_disabled(self, enabled, h) ==
    [ft |-> [label |-> self.label, requested_usage |-> "Mut",
             needed_usage |-> Len(h.needed) + 1,
             parent_needed_usage |-> self.needed_usage,
             disabled |-> TRUE, tracker |-> NoTracker, enabled |-> enabled],
     h  |-> [h EXCEPT !.needed = Append(@, "None")]]

clone_disabled(self, enabled) ==
    [self EXCEPT !.disabled = TRUE, !.tracker = NoTracker, !.enabled = enabled]

disable(self) == [self EXCEPT !.disabled = TRUE]

\* A slip: the usage registered last is kept.
register_usage_Overwriting(self, usage, h) ==
    [h EXCEPT !.needed[self.needed_usage] = usage]

\* A slip: whatever the access, a read is recorded.
register_usage_RefOnly(self, usage, h) ==
    [h EXCEPT !.needed[self.needed_usage] = UsageMax(@, "Ref")]

register_usage(self, usage, h) ==
    [h EXCEPT !.needed[self.needed_usage] = UsageMax(@, usage)]

register_parent_needed_usage(self, usage, h) ==
    IF self.parent_needed_usage # NoCell
    THEN [h EXCEPT !.needed[self.parent_needed_usage] = UsageMax(@, usage)]
    ELSE h

\* self.tracker is dropped with the FieldUsageTracker.
DropTrackerHandle(self, h) ==
    IF self.tracker # NoTracker THEN UsageTracker_drop(self.tracker, h) ELSE h

\* if let Some(t) = self.tracker.as_mut() { t.set_usage(self.label, usage) }
RecordUsage(self, needed_, h) ==
    IF self.tracker # NoTracker
    THEN set_usage(self.tracker, self.label,
                   [requested |-> self.requested_usage, needed |-> needed_], h)
    ELSE h

\* A slip: the parent is forced to Mut whatever was needed.
MaskParent_Always(self, needed_, h) == register_parent_needed_usage(self, "Mut", h)

\* if needed < requested { self.register_parent_needed_usage(Some(Usage::Mut)) }
MaskParent(self, needed_, h) ==
    IF UsageOrd(needed_) < UsageOrd(self.requested_usage)
    THEN register_parent_needed_usage(self, "Mut", h)
    ELSE h

\* A slip: a discrepancy of the child is not held against the parent.
DropFieldUsageTracker_NoMasking(self, h) ==
    DropTrackerHandle(self,
        IF ~self.disabled /\ self.enabled
        THEN RecordUsage(self, h.needed[self.needed_usage],
                 register_parent_needed_usage(self, h.needed[self.needed_usage], h))
        ELSE register_parent_needed_usage(self, h.needed[self.needed_usage], h))

\* A slip: a disabled tracker forwards nothing to its parent.
DropFieldUsageTracker_ForwardEnabledOnly(self, h) ==
    DropTrackerHandle(self,
        IF ~self.disabled /\ self.enabled
        THEN MaskParent(self, h.needed[self.needed_usage],
                 RecordUsage(self, h.needed[self.needed_usage],
                     register_parent_needed_usage(self, h.needed[self.needed_usage], h)))
        ELSE h)

\* impl Drop for FieldUsageTracker, and then the drop of its `tracker` field.
DropFieldUsageTracker(self, h) ==
    DropTrackerHandle(self,
        IF ~self.disabled /\ self.enabled
        THEN MaskParent(self, h.needed[self.needed_usage],
                 RecordUsage(self, h.needed[self.needed_usage],
                     register_parent_needed_usage(self, h.needed[self.needed_usage], h)))
        ELSE register_parent_needed_usage(self, h.needed[self.needed_usage], h))

\* The two fields acquire returns; the field that was moved in is dropped.
Acquired(this, target, r) ==
    [target |-> target, rest |-> r.ft, h |-> DropFieldUsageTracker(this, r.h)]

\* The rest field gets a disabled child.
AcquireRest(this, t) == Acquired(this, t.ft, new_child_disabled(this, this.enabled, t.h))

\* The tracker side of Acquire::acquire(field, usage_tracker): the target
\* field gets an enabled child recording the requested usage (a Hidden
\* target has nothing to record), the rest field a disabled child.
AcquireTracker(this, target, tracker, track, h) ==
    AcquireRest(this,
        IF target = "Hidden"
        THEN new_child_disabled(this, track, UsageTracker_drop(tracker, h))
        ELSE new_child(this, target, tracker, track, h))

NoTrackers == [st |-> "none"]

TrackersOf(fields, usage_tracker) ==
    [st |-> "live", fields |-> fields, usage_tracker |-> usage_tracker]

AddField(acc, r) == [fields |-> Append(acc.fields, r.ft), h |-> r.h]

\* borrow::Field::new(label, Some(Usage::Mut), &mut self.f, usage_tracker.clone())
\* for the fields from the k-th on.
RECURSIVE AsRefsMutFields(_, _, _)
AsRefsMutFields(k, t, acc) ==
    IF k > Len(decl) THEN acc
    ELSE AsRefsMutFields(k + 1, t,
             AddField(acc, FieldUsageTracker_new(decl[k], "Mut", t, TRUE,
                                                 UsageTracker_clone(t, acc.h))))

\* A slip: the struct is returned with its field trackers as they were made.
DisabledRef_Enabled(t, r) ==
    [value |-> TrackersOf(r.fields, t), h |-> r.h]

\* disable_field_usage_tracking(&struct_ref); struct_ref
DisabledRef(t, r) ==
    [value |-> TrackersOf([k \in 1..Len(decl) |-> disable(r.fields[k])], t), h |-> r.h]

\* as_refs_mut, the trackers: Field::new per field with one UsageTracker,
\* then disable_field_usage_tracking.
as_refs_mut_trackers(loc, h) ==
    DisabledRef(Len(h.data) + 1,
        AsRefsMutFields(1, Len(h.data) + 1,
                        [fields |-> <<>>, h |-> UsageTracker_new(loc, h)]))

\* CloneRef::clone_ref_disabled_usage_tracking, the trackers.
clone_ref_disabled_usage_tracking(v, h) ==
    [value |-> TrackersOf([k \in 1..Len(decl) |->
                              clone_disabled(v.fields[k], v.fields[k].enabled)],
                          Len(h.data) + 1),
     h |-> UsageTracker_new("derive", h)]

AddAcquired(acc, a) ==
    [target |-> Append(acc.target, a.target), rest |-> Append(acc.rest, a.rest), h |-> a.h]

\* AcquireMarker::acquire(self.f, usage_tracker.clone()) for the fields from
\* the k-th on.
RECURSIVE AcquireFields(_, _, _, _, _, _)
AcquireFields(k, c, req, t, track, acc) ==
    IF k > Len(decl) THEN acc
    ELSE AcquireFields(k + 1, c, req, t, track,
             AddAcquired(acc, AcquireTracker(c.fields[k], req[decl[k]], t, track,
                                             UsageTracker_clone(t, acc.h))))

\* The two structs into_split_impl returns; the rest gets a fresh
\* UsageTracker and what is left of self is dropped.
SplitTrackers(c, t, a) ==
    [value |-> TrackersOf(a.target, t),
     rest  |-> TrackersOf(a.rest, Len(a.h.data) + 1),
     h     |-> UsageTracker_drop(c.usage_tracker, UsageTracker_new("derive", a.h))]

\* IntoPartial::into_split_impl, the trackers.
into_split_impl_trackers(c, req, track, loc, h) ==
    SplitTrackers(c, Len(h.data) + 1,
        AcquireFields(1, c, req, Len(h.data) + 1, track,
                      [target |-> <<>>, rest |-> <<>>, h |-> UsageTracker_new(loc, h)]))

IntoSplitOfClone(c, req, track, loc) ==
    into_split_impl_trackers(c.value, req, track, loc, c.h)

\* Partial::split_impl, the trackers.
split_impl_trackers(v, req, track, loc, h) ==
    IntoSplitOfClone(clone_ref_disabled_usage_tracking(v, h), req, track, loc)

RECURSIVE DropFields(_, _, _)
DropFields(k, v, h) ==
    IF k > Len(decl) THEN h
    ELSE DropFields(k + 1, v, DropFieldUsageTracker(v.fields[k], h))

\* A reference struct goes out of scope: its fields are dropped in the
\* order of their declaration, its usage_tracker last.
drop_trackers(v, h) == UsageTracker_drop(v.usage_tracker, DropFields(1, v, h))

\* `.0` of a split: the rest half is dropped.
TargetOf(s) == [value |-> s.value, h |-> drop_trackers(s.rest, s.h)]

\* PartialHelper::partial_borrow_or_eq, the trackers.
partial_borrow_trackers(v, req, track, loc, h) ==
    TargetOf(split_impl_trackers(v, req, track, loc, h))

\* The position of field f in the declaration.
Pos(f) == CHOOSE k \in 1..Len(decl) : decl[k] = f

\* A Field moved out of its reference struct.
FieldOf(ft) == [st |-> "field", field |-> ft]

RECURSIVE DropFieldsBut(_, _, _, _)
DropFieldsBut(k, f, v, h) ==
    IF k > Len(decl) THEN h
    ELSE DropFieldsBut(k + 1, f, v,
             IF decl[k] = f THEN h ELSE DropFieldUsageTracker(v.fields[k], h))

\* (split.0.f, split.1): what is left of split.0 goes out of scope.
FieldAndRest(f, s) ==
    [value |-> FieldOf(s.value.fields[Pos(f)]),
     rest  |-> s.rest,
     h     |-> UsageTracker_drop(s.value.usage_tracker,
                                 DropFieldsBut(1, f, s.value, s.h))]

\* borrow_<f> (c = "Ref") and borrow_<f>_mut (c = "Mut"), the trackers.
borrow_field_trackers(v, f, c, track, loc, h) ==
    FieldAndRest(f, IntoSplitOfClone(clone_ref_disabled_usage_tracking(v, h),
                                     BorrowTarget(f, c), track, loc))

\* A reference struct, or a Field moved out of one, goes out of scope.
DropValue(v, h) ==
    IF v.st = "field" THEN DropFieldUsageTracker(v.field, h) ELSE drop_trackers(v, h)

\* DerefMut for Field<Track, T>: records Mut, then hands out the reference.
deref_mut(v, f, h) ==
    register_usage(IF v.st = "field" THEN v.field ELSE v.fields[Pos(f)], "Mut", h)

\* Deref for Field<Track, T>: records Ref, then hands out the reference.
deref(v, f, h) ==
    register_usage(IF v.st = "field" THEN v.field ELSE v.fields[Pos(f)], "Ref", h)

\* The heap after an operation of thread t becomes the state.
SetHeapOf(t, h) ==
    /\ needed' = h.needed
    /\ data' = h.data
    /\ stderr' = h.stderr
    /\ WARNING_COUNT' = [WARNING_COUNT EXCEPT ![t] = h.count]

SetHeap(h) == SetHeapOf(MainThread, h)

\* Value i gets the trackers made, and the heap is the one they left.
SetTrackers(i, r) ==
    /\ trackers' = [trackers EXCEPT ![i] = r.value]
    /\ SetHeap(r.h)

\* Values i and j get the two halves made.
SetTrackers2(i, j, r) ==
    /\ trackers' = [trackers EXCEPT ![i] = r.value, ![j] = r.rest]
    /\ SetHeap(r.h)

\* ------------------------------------------------------- the graph example

\* Ids are counted from 1 here (0 in the Rust example); None is 0.
None == 0

\* The edge ids e with to[e] = i, in increasing order.
RECURSIVE InputsOf(_, _, _)
InputsOf(to, i, e) ==
    IF e > Len(to) THEN <<>>
    ELSE (IF to[e] = i THEN <<e>> ELSE <<>>) \o InputsOf(to, i, e + 1)

\* The Graph of main: edge i leaves node i and enters node to[i]; the
\* example is to = <<2, 3, 1>>.
MkGraph(to) ==
    [f \in Fields |->
        CASE f = "nodes" -> [i \in 1..Len(to) |->
                               [outputs |-> <<i>>, inputs |-> InputsOf(to, i, 1)]]
          [] f = "edges" -> [e \in 1..Len(to) |-> [from |-> e, to |-> to[e]]]
          [] OTHER       -> <<>>]

Cycle3 == <<2, 3, 1>>

Graphs == UNION {[1..n -> 1..n] : n \in 1..MaxNodes}

\* p!(&<mut edges> Graph)
MutEdges == [f \in Fields |-> IF f = "edges" THEN "Mut" ELSE "Hidden"]

\* Positions on the stack of the values of detach_all_nodes.
GraphArg == 1
NodesVar == 2
Graph2Var == 3
DetachArg == 4

\* A write or a mutable read through a slot needs a `&mut`.
CanWrite(vs, i, f) == Live(vs, i) /\ vs[i].slots[f].cap = "Mut"

InitGraph ==
    /\ InitTracking
    /\ decl = Graph3
    /\ vals = [i \in Ids |-> NoVal]
    /\ \E to \in Graphs :
          /\ mem = MkGraph(to)
          /\ q = [phase |-> "graph", to |-> to, node |-> 0, list |-> <<>>]
    /\ pc = "main"

\* main: graph.as_refs_mut()
MainAsRefsMut ==
    /\ pc = "main"
    /\ ~Borrowed(vals, OwnerLt)
    /\ vals' = [vals EXCEPT ![GraphArg] = as_refs_mut]
    /\ SetTrackers(GraphArg, as_refs_mut_trackers("main", Heap))
    /\ pc' = "detach_all_nodes"
    /\ UNCHANGED <<decl, mem, q>>

\* detach_all_nodes: let (nodes, graph2) = graph.extract_nodes();
ExtractNodes ==
    /\ pc = "detach_all_nodes"
    /\ Usable(vals, GraphArg)
    /\ IntoPartialDefined(CapsOf(vals[GraphArg]), BorrowTarget("nodes", "Mut"))
    /\ vals' = borrow_field(Narrowed(vals, GraphArg), GraphArg, NodesVar, Graph2Var,
                            "nodes", "Mut")
    /\ SetTrackers2(NodesVar, Graph2Var,
                    borrow_field_trackers(trackers[GraphArg], "nodes", "Mut", TRUE,
                                          "detach_all_nodes", Heap))
    /\ q' = [q EXCEPT !.node = 1]
    /\ pc' = "for_node"
    /\ UNCHANGED <<decl, mem>>

\* for node in nodes { detach_node(graph2.partial_borrow(), node) }
\* The loop reaches the nodes through the Field (DerefMut); when it ends,
\* nodes and then graph2 go out of scope.
ForNode ==
    /\ pc = "for_node"
    /\ CanWrite(vals, NodesVar, "nodes")
    /\ IF q.node <= Len(mem[vals[NodesVar].slots["nodes"].ref])
       THEN /\ Usable(vals, Graph2Var)
            /\ PartialBorrowDefined(CapsOf(vals[Graph2Var]), MutEdges)
            /\ vals' = partial_borrow(Narrowed(vals, Graph2Var), Graph2Var,
                                      DetachArg, MutEdges)
            /\ SetTrackers(DetachArg,
                   partial_borrow_trackers(trackers[Graph2Var], MutEdges, TRUE,
                       "detach_node", deref_mut(trackers[NodesVar], "nodes", Heap)))
            /\ pc' = "detach_node"
       ELSE /\ vals' = drop(drop(vals, Graph2Var), NodesVar)
            /\ trackers' = [trackers EXCEPT ![NodesVar] = NoTrackers,
                                            ![Graph2Var] = NoTrackers]
            /\ SetHeap(DropValue(trackers[Graph2Var],
                           DropValue(trackers[NodesVar],
                               deref_mut(trackers[NodesVar], "nodes", Heap))))
            /\ pc' = "return"
    /\ UNCHANGED <<decl, mem, q>>

\* detach_node: std::mem::take(&mut node.outputs)
TakeOutputs ==
    /\ pc = "detach_node"
    /\ CanWrite(vals, NodesVar, "nodes")
    /\ LET ref == vals[NodesVar].slots["nodes"].ref
       IN  /\ q' = [q EXCEPT !.list = mem[ref][q.node].outputs]
           /\ mem' = [mem EXCEPT ![ref][q.node].outputs = <<>>]
    /\ pc' = "for_output"
    /\ UNCHANGED <<decl, vals, tracking>>

\* for edge_id in .. { graph.edges[edge_id].from = None; }
DetachOutput ==
    /\ pc = "for_output"
    /\ q.list # <<>>
    /\ CanWrite(vals, DetachArg, "edges")
    /\ LET ref == vals[DetachArg].slots["edges"].ref
       IN  IF Head(q.list) \in 1..Len(mem[ref])
           THEN /\ mem' = [mem EXCEPT ![ref][Head(q.list)].from = None]
                /\ q' = [q EXCEPT !.list = Tail(q.list)]
                /\ pc' = pc
           ELSE /\ pc' = "panicked"
                /\ UNCHANGED <<mem, q>>
    /\ SetHeap(deref_mut(trackers[DetachArg], "edges", Heap))
    /\ UNCHANGED <<decl, vals, trackers>>

\* detach_node: std::mem::take(&mut node.inputs)
TakeInputs ==
    /\ pc = "for_output"
    /\ q.list = <<>>
    /\ CanWrite(vals, NodesVar, "nodes")
    /\ LET ref == vals[NodesVar].slots["nodes"].ref
       IN  /\ q' = [q EXCEPT !.list = mem[ref][q.node].inputs]
           /\ mem' = [mem EXCEPT ![ref][q.node].inputs = <<>>]
    /\ pc' = "for_input"
    /\ UNCHANGED <<decl, vals, tracking>>

\* for edge_id in .. { graph.edges[edge_id].to = None; }
DetachInput ==
    /\ pc = "for_input"
    /\ q.list # <<>>
    /\ CanWrite(vals, DetachArg, "edges")
    /\ LET ref == vals[DetachArg].slots["edges"].ref
       IN  IF Head(q.list) \in 1..Len(mem[ref])
           THEN /\ mem' = [mem EXCEPT ![ref][Head(q.list)].to = None]
                /\ q' = [q EXCEPT !.list = Tail(q.list)]
                /\ pc' = pc
           ELSE /\ pc' = "panicked"
                /\ UNCHANGED <<mem, q>>
    /\ SetHeap(deref_mut(trackers[DetachArg], "edges", Heap))
    /\ UNCHANGED <<decl, vals, trackers>>

\* detach_node returns: its argument goes out of scope, the loop goes on.
DetachNodeReturn ==
    /\ pc = "for_input"
    /\ q.list = <<>>
    /\ Usable(vals, DetachArg)
    /\ vals' = drop(vals, DetachArg)
    /\ trackers' = [trackers EXCEPT ![DetachArg] = NoTrackers]
    /\ SetHeap(DropValue(trackers[DetachArg], Heap))
    /\ q' = [q EXCEPT !.node = q.node + 1]
    /\ pc' = "for_node"
    /\ UNCHANGED <<decl, mem>>

\* detach_all_nodes returns; the temporary of main is dropped and main
\* reads the graph for its assertions.
DetachAllReturn ==
    /\ pc = "return"
    /\ Usable(vals, GraphArg)
    /\ vals' = drop(vals, GraphArg)
    /\ trackers' = [trackers EXCEPT ![GraphArg] = NoTrackers]
    /\ SetHeap(DropValue(trackers[GraphArg], Heap))
    /\ pc' = "done"
    /\ UNCHANGED <<decl, mem, q>>

NextGraph ==
    \/ MainAsRefsMut
    \/ ExtractNodes
    \/ ForNode
    \/ TakeOutputs
    \/ DetachOutput
    \/ TakeInputs
    \/ DetachInput
    \/ DetachNodeReturn
    \/ DetachAllReturn

SpecGraph == InitGraph /\ [][NextGraph]_vars

\* ------------------------------------------------- the tracked call scenario
\*
\*   fn main()  { let mut g = graph.as_refs_mut();          // "main"
\*                callee(&mut g.partial_borrow_or_eq()); }  // "outer"
\*   fn callee(graph: p!(&<mut *> Graph)) {
\*       let target = graph.partial_borrow();               // "inner"
\*       .. reads and writes through target ..
\*   }

\* Warnings the thread has printed before the scenario starts.
PriorWarnings ==
    {0, MAX_WARNING_COUNT - 3, MAX_WARNING_COUNT - 2, MAX_WARNING_COUNT - 1}

\* Positions on the stack of the values of the scenario.
RootVar == 1
OuterArg == 2
InnerVar == 3

InitTrack ==
    /\ decl = Graph3
    /\ vals = [i \in Ids |-> NoVal]
    /\ mem = [f \in Fields |-> 0]
    /\ pc = "main"
    /\ trackers = [i \in Ids |-> NoTrackers]
    /\ needed = <<>>
    /\ data = <<>>
    /\ stderr = <<>>
    /\ \E n \in PriorWarnings :
          WARNING_COUNT = [t \in Threads |-> IF t = MainThread THEN n ELSE 0]
    /\ \E req \in CapVectors, track \in BOOLEAN :
          q = [phase |-> "track", req |-> req, track |-> track,
               did |-> [f \in Fields |-> "None"], prior |-> WARNING_COUNT[MainThread]]

TrackAsRefsMut ==
    /\ pc = "main"
    /\ ~Borrowed(vals, OwnerLt)
    /\ vals' = [vals EXCEPT ![RootVar] = as_refs_mut]
    /\ SetTrackers(RootVar, as_refs_mut_trackers("main", Heap))
    /\ pc' = "call"
    /\ UNCHANGED <<decl, mem, q>>

\* callee(&mut g.partial_borrow_or_eq()) with the target p!(&<mut *> Graph).
TrackCall ==
    /\ pc = "call"
    /\ Usable(vals, RootVar)
    /\ IntoPartialDefined(CapsOf(vals[RootVar]), AllCaps("Mut"))
    /\ vals' = partial_borrow_or_eq(Narrowed(vals, RootVar), RootVar, OuterArg,
                                    AllCaps("Mut"))
    /\ SetTrackers(OuterArg, partial_borrow_trackers(trackers[RootVar], AllCaps("Mut"),
                                                     TRUE, "outer", Heap))
    /\ pc' = "callee"
    /\ UNCHANGED <<decl, mem, q>>

\* let target = graph.partial_borrow(); its type is the input q.req, tracked
\* unless written with the `_` prefix (q.track).
TrackNarrow ==
    /\ pc = "callee"
    /\ Usable(vals, OuterArg)
    /\ PartialBorrowDefined(CapsOf(vals[OuterArg]), q.req)
    /\ vals' = partial_borrow(Narrowed(vals, OuterArg), OuterArg, InnerVar, q.req)
    /\ SetTrackers(InnerVar, partial_borrow_trackers(trackers[OuterArg], q.req,
                                                     q.track, "inner", Heap))
    /\ pc' = "body"
    /\ UNCHANGED <<decl, mem, q>>

\* &*target.f : Deref for Field records Ref.
TrackDeref(f) ==
    /\ pc = "body"
    /\ Usable(vals, InnerVar)
    /\ vals[InnerVar].slots[f].cap # "Hidden"
    /\ SetHeap(register_usage(trackers[InnerVar].fields[Pos(f)], "Ref", Heap))
    /\ q' = [q EXCEPT !.did[f] = UsageMax(@, "Ref")]
    /\ UNCHANGED <<decl, vals, mem, pc, trackers>>

\* &mut *target.f : DerefMut for Field records Mut.
TrackDerefMut(f) ==
    /\ pc = "body"
    /\ Usable(vals, InnerVar)
    /\ vals[InnerVar].slots[f].cap = "Mut"
    /\ SetHeap(register_usage(trackers[InnerVar].fields[Pos(f)], "Mut", Heap))
    /\ q' = [q EXCEPT !.did[f] = UsageMax(@, "Mut")]
    /\ UNCHANGED <<decl, vals, mem, pc, trackers>>

\* The value at the top of the stack goes out of scope.
TrackDrop(i, at, to) ==
    /\ pc = at
    /\ Usable(vals, i)
    /\ vals' = drop(vals, i)
    /\ trackers' = [trackers EXCEPT ![i] = NoTrackers]
    /\ SetHeap(drop_trackers(trackers[i], Heap))
    /\ pc' = to
    /\ UNCHANGED <<decl, mem, q>>

\* callee returns.
TrackReturn == TrackDrop(InnerVar, "body", "returned")

\* The statement of the call ends: its temporary is dropped.
TrackEndCall == TrackDrop(OuterArg, "returned", "end")

\* main returns.
TrackEnd == TrackDrop(RootVar, "end", "done")

NextTrack ==
    \/ TrackAsRefsMut
    \/ TrackCall
    \/ TrackNarrow
    \/ \E f \in Fields : TrackDeref(f)
    \/ \E f \in Fields : TrackDerefMut(f)
    \/ TrackReturn
    \/ TrackEndCall
    \/ TrackEnd

SpecTrack == InitTrack /\ [][NextTrack]_vars

\* ------------------------------------------- narrowing, use and drop at large
\*
\*   fn main()  { let mut g = graph.as_refs_mut();                  // "main"
\*                .. writes through g ..
\*                callee(&mut g.partial_borrow_or_eq()); }          // "outer"
\*   fn callee(graph: p!(&<req1> Graph)) {
\*       let (target, rest) = graph.split::<p!([_]&<req2> Graph)>(); // "inner"
\*       .. reads and writes through target and rest,
\*          target.mark_all_fields_as_used() ..
\*   }
\*
\* built with usage tracking compiled in or not.

RestVar == 4

\* partial!: `let track = if input.has_underscore { False } else { True }`.
partial_Track_AlwaysTrue(has_underscore) == TRUE

partial_Track(has_underscore) == ~has_underscore

\* Field::mark_as_used: records Mut without an access.
mark_as_used(self, h) == register_usage(self, "Mut", h)

\* self.f.mark_as_used() for the fields from the k-th on.
RECURSIVE MarkFields(_, _, _)
MarkFields(k, v, h) ==
    IF k > Len(decl) THEN h
    ELSE MarkFields(k + 1, v, mark_as_used(v.fields[k], h))

\* A slip: only the first field is marked.
mark_all_fields_as_used_FirstOnly(v, h) == mark_as_used(v.fields[1], h)

\* HasUsageTrackedFields::mark_all_fields_as_used
mark_all_fields_as_used(v, h) == MarkFields(1, v, h)

\* Code under #[cfg(usage_tracking_enabled)]: without the cfg the trackers
\* are the mock, which has no state.
WhenTracked(A) == IF q.usage_tracking_enabled THEN A ELSE UNCHANGED tracking

\* What the trackers of the target and of the rest were told of field f so
\* far, after one more registration of usage u through value i; nothing is
\* told to the mock.
Registered(i, f, u) ==
    IF ~q.usage_tracking_enabled THEN q.used
    ELSE IF i = InnerVar THEN [q.used EXCEPT !.target[f] = UsageMax(@, u)]
    ELSE [q.used EXCEPT !.rest[f] = UsageMax(@, u)]

\* A read through field f of value i registers Ref on a tracker that has Mut.
RefAfterMut(i, f) ==
    IF ~q.usage_tracking_enabled THEN FALSE
    ELSE IF trackers[i].st = "field" THEN needed[trackers[i].field.needed_usage] = "Mut"
    ELSE needed[trackers[i].fields[Pos(f)].needed_usage] = "Mut"

\* The environment cargo runs the build script in: the profile, and the
\* variable of each feature, set or not.
Environments ==
    [PROFILE : {"debug", "release"},
     CARGO_FEATURE_USAGE_TRACKING : BOOLEAN,
     CARGO_FEATURE_NO_USAGE_TRACKING : BOOLEAN]

\* std::env::var("PROFILE").map(|v| v == "release").unwrap_or(false)
is_release(env) == env.PROFILE = "release"

\* A slip: the opt-out feature is not looked at.
build_main_IgnoringOptOut(env) ==
    ~is_release(env) \/ env.CARGO_FEATURE_USAGE_TRACKING

\* build.rs, main: whether cargo:rustc-cfg=usage_tracking_enabled is printed.
build_main(env) ==
    /\ ~is_release(env) \/ env.CARGO_FEATURE_USAGE_TRACKING
    /\ ~env.CARGO_FEATURE_NO_USAGE_TRACKING

InitUse ==
    /\ decl = Graph2
    /\ vals = [i \in Ids |-> NoVal]
    /\ mem = [f \in Fields |-> 0]
    /\ pc = "build"
    /\ trackers = [i \in Ids |-> NoTrackers]
    /\ needed = <<>>
    /\ data = <<>>
    /\ stderr = <<>>
    /\ \E n \in {0, MAX_WARNING_COUNT - 1, MAX_WARNING_COUNT},
          req1 \in CapVectors, req2 \in CapVectors,
          has_underscore \in BOOLEAN, env \in Environments :
          /\ WARNING_COUNT = [t \in Threads |-> IF t = MainThread THEN n ELSE 0]
          /\ q = [phase |-> "use", req1 |-> req1, req2 |-> req2,
                   has_underscore |-> has_underscore,
                   env |-> env, usage_tracking_enabled |-> FALSE,
                   prior |-> n, marked |-> FALSE, touched |-> FALSE,
                   ref_after_mut |-> FALSE,
                   used |-> [target |-> [f \in Fields |-> "None"],
                             rest |-> [f \in Fields |-> "None"]]]

\* The crate is built: build.rs runs and the cfg is set or not.
UseBuild ==
    /\ pc = "build"
    /\ pc' = "main"
    /\ q' = [q EXCEPT !.usage_tracking_enabled = build_main(q.env)]
    /\ UNCHANGED <<decl, vals, mem, tracking>>

UseAsRefsMut ==
    /\ pc = "main"
    /\ ~Borrowed(vals, OwnerLt)
    /\ vals' = [vals EXCEPT ![RootVar] = as_refs_mut]
    /\ WhenTracked(SetTrackers(RootVar, as_refs_mut_trackers("main", Heap)))
    /\ pc' = "call"
    /\ UNCHANGED <<decl, mem, q>>

\* &mut *g.f in main, before the call.
UseRoot(f) ==
    /\ pc = "call"
    /\ Usable(vals, RootVar)
    /\ vals[RootVar].slots[f].cap = "Mut"
    /\ WhenTracked(SetHeap(deref_mut(trackers[RootVar], f, Heap))
                   /\ UNCHANGED trackers)
    /\ UNCHANGED <<decl, vals, mem, pc, q>>

UseCall ==
    /\ pc = "call"
    /\ Usable(vals, RootVar)
    /\ IntoPartialDefined(CapsOf(vals[RootVar]), q.req1)
    /\ vals' = partial_borrow_or_eq(Narrowed(vals, RootVar), RootVar, OuterArg, q.req1)
    /\ WhenTracked(SetTrackers(OuterArg,
           partial_borrow_trackers(trackers[RootVar], q.req1, TRUE, "outer", Heap)))
    /\ pc' = "callee"
    /\ UNCHANGED <<decl, mem, q>>

\* A slip: built without usage tracking, acquire hands out the two halves
\* the wrong way round.
UseSplit_MockSwapped ==
    /\ pc = "callee"
    /\ Usable(vals, OuterArg)
    /\ IntoPartialDefined(CapsOf(vals[OuterArg]), q.req2)
    /\ vals' = IF q.usage_tracking_enabled
               THEN split_impl(Narrowed(vals, OuterArg), OuterArg, InnerVar, RestVar, q.req2)
               ELSE split_impl(Narrowed(vals, OuterArg), OuterArg, RestVar, InnerVar, q.req2)
    /\ WhenTracked(SetTrackers2(InnerVar, RestVar,
           split_impl_trackers(trackers[OuterArg], q.req2,
                               partial_Track(q.has_underscore), "inner", Heap)))
    /\ pc' = "body"
    /\ UNCHANGED <<decl, mem, q>>

UseSplit ==
    /\ pc = "callee"
    /\ Usable(vals, OuterArg)
    /\ IntoPartialDefined(CapsOf(vals[OuterArg]), q.req2)
    /\ vals' = split_impl(Narrowed(vals, OuterArg), OuterArg, InnerVar, RestVar, q.req2)
    /\ WhenTracked(SetTrackers2(InnerVar, RestVar,
           split_impl_trackers(trackers[OuterArg], q.req2,
                               partial_Track(q.has_underscore), "inner", Heap)))
    /\ pc' = "body"
    /\ UNCHANGED <<decl, mem, q>>

\* let (field, rest) = outer.borrow_<f>[_mut]() in the callee: the target is
\* the Field moved out of the narrowed struct.
UseBorrowField(f) ==
    /\ pc = "callee"
    /\ Usable(vals, OuterArg)
    /\ ~q.has_underscore
    /\ q.req2[f] # "Hidden"
    /\ q.req2 = BorrowTarget(f, q.req2[f])
    /\ IntoPartialDefined(CapsOf(vals[OuterArg]), q.req2)
    /\ vals' = borrow_field(Narrowed(vals, OuterArg), OuterArg, InnerVar, RestVar,
                            f, q.req2[f])
    /\ WhenTracked(SetTrackers2(InnerVar, RestVar,
           borrow_field_trackers(trackers[OuterArg], f, q.req2[f], TRUE, "field", Heap)))
    /\ pc' = "body"
    /\ UNCHANGED <<decl, mem, q>>

\* &*v.f for v the target or the rest.
UseDeref(i, f) ==
    /\ pc = "body"
    /\ i \in {InnerVar, RestVar}
    /\ Usable(vals, i)
    /\ vals[i].slots[f].cap # "Hidden"
    /\ WhenTracked(SetHeap(deref(trackers[i], f, Heap)) /\ UNCHANGED trackers)
    /\ q' = [q EXCEPT !.touched = @ \/ i = InnerVar, !.used = Registered(i, f, "Ref"),
                       !.ref_after_mut = @ \/ RefAfterMut(i, f)]
    /\ UNCHANGED <<decl, vals, mem, pc>>

\* &mut *v.f for v the target or the rest.
UseDerefMut(i, f) ==
    /\ pc = "body"
    /\ i \in {InnerVar, RestVar}
    /\ Usable(vals, i)
    /\ vals[i].slots[f].cap = "Mut"
    /\ WhenTracked(SetHeap(deref_mut(trackers[i], f, Heap)) /\ UNCHANGED trackers)
    /\ q' = [q EXCEPT !.touched = @ \/ i = InnerVar, !.used = Registered(i, f, "Mut")]
    /\ UNCHANGED <<decl, vals, mem, pc>>

\* target.mark_all_fields_as_used()
UseMarkAll ==
    /\ pc = "body"
    /\ Usable(vals, InnerVar)
    /\ vals[InnerVar].half # "field"
    /\ ~q.marked
    /\ WhenTracked(SetHeap(mark_all_fields_as_used(trackers[InnerVar], Heap))
                   /\ UNCHANGED trackers)
    /\ q' = [q EXCEPT !.marked = TRUE,
                       !.used = IF q.usage_tracking_enabled
                                THEN [@ EXCEPT !.target = [f \in Fields |-> "Mut"]]
                                ELSE @]
    /\ UNCHANGED <<decl, vals, mem, pc>>

\* callee returns: rest, then target go out of scope.
UseReturn ==
    /\ pc = "body"
    /\ Usable(vals, RestVar) /\ Usable(vals, InnerVar)
    /\ vals' = drop(drop(vals, RestVar), InnerVar)
    /\ WhenTracked(/\ trackers' = [trackers EXCEPT ![RestVar] = NoTrackers,
                                                    ![InnerVar] = NoTrackers]
                   /\ SetHeap(DropValue(trackers[InnerVar],
                                  DropValue(trackers[RestVar], Heap))))
    /\ pc' = "returned"
    /\ UNCHANGED <<decl, mem, q>>

\* A value goes out of scope.
UseDrop(i, at, to) ==
    /\ pc = at
    /\ Usable(vals, i)
    /\ vals' = drop(vals, i)
    /\ WhenTracked(/\ trackers' = [trackers EXCEPT ![i] = NoTrackers]
                   /\ SetHeap(DropValue(trackers[i], Heap)))
    /\ pc' = to
    /\ UNCHANGED <<decl, mem, q>>

UseEndCall == UseDrop(OuterArg, "returned", "end")

UseEnd == UseDrop(RootVar, "end", "done")

NextUse ==
    \/ UseBuild
    \/ UseAsRefsMut
    \/ \E f \in Fields : UseRoot(f)
    \/ UseCall
    \/ UseSplit
    \/ \E f \in Fields : UseBorrowField(f)
    \/ \E i \in Ids, f \in Fields : UseDeref(i, f)
    \/ \E i \in Ids, f \in Fields : UseDerefMut(i, f)
    \/ UseMarkAll
    \/ UseReturn
    \/ UseEndCall
    \/ UseEnd

SpecUse == InitUse /\ [][NextUse]_vars

\* ------------------------------------------------------- the warning cap
\*
\*   on each thread:  loop { callee(&mut g.partial_borrow()) }
\*   fn callee(graph: p!(&<mut edges, mut nodes> Graph)) { .. writes nodes .. }

RECURSIVE SumOver(_, _)
SumOver(f, S) ==
    IF S = {} THEN 0
    ELSE LET t == CHOOSE x \in S : TRUE IN f[t] + SumOver(f, S \ {t})

InitCap ==
    /\ InitTracking
    /\ decl = Graph3
    /\ vals = [i \in Ids |-> NoVal]
    /\ mem = [f \in Fields |-> 0]
    /\ pc = "loop"
    /\ q = [phase |-> "cap", drops |-> [t \in Threads |-> 0]]

\* What the fields of the callee's argument record when they are dropped:
\* nodes was used as requested, edges was not used.
RecordDiscrepancy(k, h) ==
    set_usage(k, "edges", [requested |-> "Mut", needed |-> "None"],
        set_usage(k, "nodes", [requested |-> "Mut", needed |-> "Mut"], h))

\* The memory of a UsageTrackerData that was dropped is given back.
Freed(k, h) == [h EXCEPT !.data = SubSeq(@, 1, k - 1)]

\* On thread t a narrowing with a discrepancy is made, used and dropped:
\* its UsageTrackerData reports.
DropDiscrepant(t) ==
    /\ pc = "loop"
    /\ SumOver(q.drops, Threads) < MaxDrops
    /\ SetHeapOf(t, Freed(Len(data) + 1,
                     UsageTracker_drop(Len(data) + 1,
                         RecordDiscrepancy(Len(data) + 1,
                             UsageTracker_new("loop", HeapOf(t))))))
    /\ q' = [q EXCEPT !.drops[t] = @ + 1]
    /\ UNCHANGED <<decl, vals, mem, pc, trackers>>

NextCap == \E t \in Threads : DropDiscrepant(t)

SpecCap == InitCap /\ [][NextCap]_vars

\* ------------------------------------------------- the report of one drop
\*
\* A UsageTrackerData with any records is dropped, on a thread that has
\* printed any number of warnings before.

\* The sequences without repetition of elements of S.
RECURSIVE Arrangements(_)
Arrangements(S) ==
    {<<>>} \cup UNION {{<<x>> \o r : r \in Arrangements(S \ {x})} : x \in S}

\* What the fields of a reference struct can have recorded: a field records
\* once, in the order the fields were dropped in.
UsageMaps ==
    UNION {{[k \in 1..Len(ls) |-> [label |-> ls[k], requested |-> u[k].r, needed |-> u[k].n]] :
               u \in [1..Len(ls) -> [r : {"Ref", "Mut"}, n : {"None", "Ref", "Mut"}]]} :
           ls \in Arrangements(Fields)}

InitReport ==
    /\ decl = Graph3
    /\ vals = [i \in Ids |-> NoVal]
    /\ mem = [f \in Fields |-> 0]
    /\ pc = "recorded"
    /\ trackers = [i \in Ids |-> NoTrackers]
    /\ needed = <<>>
    /\ data = <<>>
    /\ stderr = <<>>
    /\ \E n \in PriorWarnings \cup {MAX_WARNING_COUNT}, m \in UsageMaps :
          /\ WARNING_COUNT = [t \in Threads |-> IF t = MainThread THEN n ELSE 0]
          /\ q = [phase |-> "report", map |-> m, prior |-> n]

\* set_usage for the records of m from the i-th on.
RECURSIVE SetUsages(_, _, _, _)
SetUsages(k, m, i, h) ==
    IF i > Len(m) THEN h
    ELSE SetUsages(k, m, i + 1,
             set_usage(k, m[i].label,
                       [requested |-> m[i].requested, needed |-> m[i].needed], h))

\* The fields have recorded q.map; the last handle of the UsageTracker is
\* dropped.
ReportDrop ==
    /\ pc = "recorded"
    /\ SetHeap(UsageTracker_drop(Len(data) + 1,
                   SetUsages(Len(data) + 1, q.map, 1, UsageTracker_new("site", Heap))))
    /\ pc' = "dropped"
    /\ UNCHANGED <<decl, vals, mem, q, trackers>>

NextReport == ReportDrop

SpecReport == InitReport /\ [][NextReport]_vars

\* ------------------------------------------------------------ the p! macro
\*
\*   p!(&'t <'a mut *, edges, ...> Graph)
\*
\* partial! parses its input, writes the selectors as tokens for the macro
\* the derive generated for the struct, which consumes them one by one and
\* produces the reference-struct type.

\* Lifetimes written in a selector, and before the list ("none": omitted).
SelectorLifetimes == {"none", "'a"}
DefaultLifetimes == {"none", "'t"}

\* What can be written between `<` and `>`: [lifetime] [mut] field,
\* [lifetime] [mut] *, and !field.
Written ==
    [kind : {"ident"}, lifetime : SelectorLifetimes, is_mut : BOOLEAN, ident : {"nodes", "edges", "groups"}]
    \cup [kind : {"star"}, lifetime : SelectorLifetimes, is_mut : BOOLEAN, ident : {"*"}]
    \cup [kind : {"not"}, lifetime : {"none"}, is_mut : {FALSE}, ident : {"nodes", "edges", "groups"}]

WrittenLists == UNION {[1..n -> Written] : n \in 0..MaxSelectors}

\* Selector::parse: a lifetime, `mut`, then `*` or an identifier; on `!`
\* none of them parses and nothing is consumed.
Selector_parse(w) ==
    IF w.kind = "not" THEN [ok |-> FALSE]
    ELSE [ok |-> TRUE,
          selector |-> [kind |-> w.kind, lifetime |-> w.lifetime,
                        is_mut |-> w.is_mut, ident |-> w.ident]]

\* parse_angled_list: selectors are parsed until `>` or until one fails to
\* parse; what is left of the input is returned with them.
RECURSIVE parse_angled_list(_, _)
parse_angled_list(input, params) ==
    IF input = <<>> THEN [params |-> params, input |-> input]
    ELSE IF ~Selector_parse(Head(input)).ok THEN [params |-> params, input |-> input]
    ELSE parse_angled_list(Tail(input), Append(params, Selector_parse(Head(input)).selector))

\* MyInput::parse, the list: parse_angled_list and then `>`, which is an
\* error if anything else comes next.
MyInput_parse(input) ==
    [ok |-> parse_angled_list(input, <<>>).input = <<>>,
     selectors |-> parse_angled_list(input, <<>>).params]

\* The token tree `[& lt mut]` / `[& lt]` written after a selector, and the
\* empty one `[]`.
Tt(lt, is_mut) == [amp |-> TRUE, lt |-> lt, mut |-> is_mut]
EmptyTt == [amp |-> FALSE, lt |-> "none", mut |-> FALSE]

\* input.lifetime.unwrap_or_else(|| quote!{ '_ })
default_lifetime(lifetime) == IF lifetime = "none" THEN "'_" ELSE lifetime

\* lifetime.as_ref().unwrap_or(&default_lifetime)
unwrap_or(lifetime, default) == IF lifetime = "none" THEN default ELSE lifetime

\* partial, one selector: an identifier is written after what was written
\* before it, a star replaces it.
AddSelector(out, selector, default) ==
    IF selector.kind = "star"
    THEN <<[sel |-> "*", n |-> Tt(unwrap_or(selector.lifetime, default), selector.is_mut)]>>
    ELSE Append(out, [sel |-> selector.ident,
                      n |-> Tt(unwrap_or(selector.lifetime, default), selector.is_mut)])

\* partial: `for selector in selectors { out = ... }`
RECURSIVE partial(_, _, _)
partial(selectors, out, default) ==
    IF selectors = <<>> THEN out
    ELSE partial(Tail(selectors), AddSelector(out, Head(selectors), default), default)

\* Generated macro, @0: every field starts with [].
init_rule == [f \in Fields |-> EmptyTt]

\* Generated macro, @1 on `* $n`: every field gets $n.
star_rule(t, n) == [f \in Fields |-> n]

\* A slip: a field keeps the tokens it already has.
field_rule_FirstWins(t, field, n) ==
    IF t[field] = EmptyTt THEN [t EXCEPT ![field] = n] ELSE t

\* Generated macro, @1 on `field $n`: that field gets $n.
field_rule(t, field, n) == [t EXCEPT ![field] = n]

\* field!{$s, Ni, tokens}: Hidden for no tokens, else the reference written.
field(tt) ==
    IF ~tt.amp THEN [cap |-> "Hidden", lt |-> "none"]
    ELSE [cap |-> IF tt.mut THEN "Mut" ELSE "Ref", lt |-> tt.lt]

\* Generated macro, the last @1 rule: the reference-struct type.
production(t) == [f \in Fields |-> field(t[f])]

NoType == [f \in Fields |-> [cap |-> "none", lt |-> "none"]]

InitSelect ==
    /\ InitTracking
    /\ decl = Graph3
    /\ vals = [i \in Ids |-> NoVal]
    /\ mem = [f \in Fields |-> 0]
    /\ pc = "written"
    /\ \E input \in WrittenLists, lifetime \in DefaultLifetimes :
          q = [phase |-> "select", input |-> input, lifetime |-> lifetime,
               selectors |-> <<>>, ts |-> <<>>, t |-> init_rule, type |-> NoType]

\* parse_macro_input!(input_raw as MyInput)
SelectParse ==
    /\ pc = "written"
    /\ pc' = IF MyInput_parse(q.input).ok THEN "parsed" ELSE "error"
    /\ q' = [q EXCEPT !.selectors = MyInput_parse(q.input).selectors]
    /\ UNCHANGED <<decl, vals, mem, tracking>>

\* partial: Graph!{@0 pfx [track] [target] out}
SelectExpand ==
    /\ pc = "parsed"
    /\ pc' = "expanded"
    /\ q' = [q EXCEPT !.ts = partial(q.selectors, <<>>, default_lifetime(q.lifetime))]
    /\ UNCHANGED <<decl, vals, mem, tracking>>

SelectInitRule ==
    /\ pc = "expanded"
    /\ pc' = "matching"
    /\ q' = [q EXCEPT !.t = init_rule]
    /\ UNCHANGED <<decl, vals, mem, tracking>>

SelectStarRule ==
    /\ pc = "matching"
    /\ q.ts # <<>> /\ Head(q.ts).sel = "*"
    /\ q' = [q EXCEPT !.t = star_rule(q.t, Head(q.ts).n), !.ts = Tail(q.ts)]
    /\ UNCHANGED <<decl, vals, mem, pc, tracking>>

SelectFieldRule ==
    /\ pc = "matching"
    /\ q.ts # <<>> /\ Head(q.ts).sel \in Fields
    /\ q' = [q EXCEPT !.t = field_rule(q.t, Head(q.ts).sel, Head(q.ts).n), !.ts = Tail(q.ts)]
    /\ UNCHANGED <<decl, vals, mem, pc, tracking>>

SelectProduction ==
    /\ pc = "matching"
    /\ q.ts = <<>>
    /\ pc' = "type"
    /\ q' = [q EXCEPT !.type = production(q.t)]
    /\ UNCHANGED <<decl, vals, mem, tracking>>

NextSelect ==
    \/ SelectParse
    \/ SelectExpand
    \/ SelectInitRule
    \/ SelectStarRule
    \/ SelectFieldRule
    \/ SelectProduction

SpecSelect == InitSelect /\ [][NextSelect]_vars

\* ------------------------------------------------------------------ claims

Rank(c) == CASE c = "Hidden" -> 0 [] c = "Ref" -> 1 [] c = "Mut" -> 2

LiveIds == {i \in Ids : Live(vals, i)}
UsableIds == {i \in Ids : Usable(vals, i)}

\* C1. Exclusivity: among the live, usable values no field of the original
\* struct is reachable through two Mut slots, nor through a Mut slot and a
\* Ref slot; this includes values narrowed from a rest half.
C1_Exclusivity ==
    \A i \in UsableIds, j \in UsableIds : \A f \in Fields, g \in Fields :
        (i # j /\ vals[i].slots[f].cap = "Mut" /\ vals[j].slots[g].cap # "Hidden")
            => vals[i].slots[f].ref # vals[j].slots[g].ref

\* C1 witness: a value narrowed from a rest half is usable next to a usable
\* target half of the same narrowing, both holding references.
C1_Witness ==
    \E t \in UsableIds, r \in LiveIds, n \in UsableIds :
        /\ vals[t].half \in {"target", "field"} /\ vals[r].half = "rest"
        /\ vals[t].src = vals[r].src /\ vals[n].src = r
        /\ \E f \in Fields : vals[t].slots[f].cap = "Mut"
        /\ \E f \in Fields : vals[n].slots[f].cap = "Mut"

\* The six legal (held, requested) pairs of the capability table.
LegalPairs ==
    { <<"Mut", "Hidden">>, <<"Ref", "Hidden">>, <<"Hidden", "Hidden">>,
      <<"Mut", "Mut">>, <<"Mut", "Ref">>, <<"Ref", "Ref">> }

\* C2. Legality: a per-field transition is accepted exactly when it is one
\* of the six legal pairs, and a struct-level narrowing is accepted exactly
\* when the transition of every field is.
C2_Legality ==
    q.phase = "answered" =>
        /\ \A f \in Fields : q.fieldOk[f] <=> (<<q.held[f], q.req[f]>> \in LegalPairs)
        /\ q.ok <=> \A f \in Fields : <<q.held[f], q.req[f]>> \in LegalPairs

\* C2 witness: the solver has rejected a narrowing whose only illegal field
\* asks for Mut where Ref is held, and the one asking Ref of a Hidden field.
C2_Witness ==
    /\ q.phase = "answered" /\ ~q.ok
    /\ q.held = [f \in Fields |-> IF f = "nodes" THEN "Ref" ELSE IF f = "edges" THEN "Hidden" ELSE "Mut"]
    /\ q.req  = [f \in Fields |-> IF f = "nodes" THEN "Mut" ELSE IF f = "edges" THEN "Ref" ELSE "Mut"]
    /\ ~q.fieldOk["nodes"] /\ ~q.fieldOk["edges"] /\ q.fieldOk["groups"]

\* The rest column of the capability table.
RestTable(held, req) ==
    CASE req = "Hidden" -> held
      [] held = "Mut" /\ req = "Mut" -> "Hidden"
      [] held = "Mut" /\ req = "Ref" -> "Ref"
      [] held = "Ref" /\ req = "Ref" -> "Ref"

\* C3. Rest of a narrowing: every field of a rest half holds what the table
\* gives for that field's own (held, requested) pair, whatever was requested
\* for the other fields.
C3_Rest ==
    \A r \in LiveIds : vals[r].half = "rest" =>
        \A f \in Fields :
            vals[r].slots[f].cap = RestTable(vals[r].held[f], vals[r].req[f])

\* C3 witness: a rest half whose fields went Mut -> Ref (Ref requested) and
\* Mut -> Hidden (Mut requested) in one narrowing.
C3_Witness ==
    \E r \in LiveIds :
        /\ vals[r].half = "rest"
        /\ vals[r].held = AllCaps("Mut")
        /\ vals[r].req["nodes"] = "Ref" /\ vals[r].slots["nodes"].cap = "Ref"
        /\ vals[r].req["edges"] = "Mut" /\ vals[r].slots["edges"].cap = "Hidden"

\* C4. No widening: every field of a narrowed value (target or rest half)
\* holds at most the capability the source held for it.
C4_NoWidening ==
    \A i \in LiveIds : vals[i].half # "root" =>
        \A f \in Fields : Rank(vals[i].slots[f].cap) <= Rank(vals[i].held[f])

\* C4 witness: a value narrowed twice over (from a narrowed value) that
\* holds strictly less than its source on one field and the same on another.
C4_Witness ==
    \E i \in LiveIds :
        /\ vals[i].half # "root" /\ vals[i].src # -1
        /\ vals[vals[i].src].half # "root"
        /\ \E f \in Fields : Rank(vals[i].slots[f].cap) < Rank(vals[i].held[f])
        /\ \E f \in Fields : vals[i].slots[f].cap = "Ref" /\ vals[i].held[f] = "Ref"

NoLiveDescendant(vs, i) == \A j \in Ids : Live(vs, j) => i \notin vs[j].anc

\* C5. Capability return: a narrowing only borrows its source.  Every step
\* leaves each value that stays alive with the slots it had, no step that
\* makes a new value ends an old one, after every step each live value
\* none of whose derived values is alive can be used (narrowed, passed on)
\* again, and the owner has access again once no reference struct is alive.
C5_CapabilityReturn ==
    [][ /\ \A i \in Ids : (Live(vals, i) /\ Live(vals', i))
                               => vals'[i].slots = vals[i].slots
        /\ \A i \in Ids : (Live(vals, i) /\ ~Live(vals', i))
                               => \A j \in Ids : Live(vals', j) => Live(vals, j)
        /\ \A i \in Ids : (Live(vals', i) /\ NoLiveDescendant(vals', i))
                               => Usable(vals', i)
        /\ (\A i \in Ids : ~Live(vals', i)) => ~Borrowed(vals', OwnerLt) ]_vars

\* C5 witness: a narrowed value holding Mut has itself been narrowed, all
\* values derived from it are gone, and it is usable again.
C5_Witness ==
    \E i \in UsableIds :
        /\ vals[i].half = "rest" /\ vals[i].narrowed
        /\ NoLiveDescendant(vals, i)
        /\ \E f \in Fields : vals[i].slots[f].cap = "Mut"

\* The target a split must be given to borrow the single field g.
SingleFieldTarget(g, cap) == [f \in Fields |-> IF f = g THEN cap ELSE "Hidden"]

\* C6. borrow_<field> (cap = Ref) and borrow_<field>_mut (cap = Mut) are
\* accepted exactly when a split whose target is Hidden everywhere but
\* <field> is accepted, the reference they return is the <field> slot of
\* that split's target, and their rest is that split's rest, which keeps on
\* every other field what the source held.
C6_BorrowField ==
    [][ \A i \in Ids, g \in Fields, cap \in {"Ref", "Mut"} :
          /\ (ENABLED BorrowField(i, g, cap))
                <=> (ENABLED Split(i, SingleFieldTarget(g, cap)))
          /\ BorrowField(i, g, cap) =>
                LET t == Top(vals) + 1
                    r == Top(vals) + 2
                    s == split_impl(Narrowed(vals, i), i, t, r, SingleFieldTarget(g, cap))
                IN  /\ vals'[t].slots[g] = s[t].slots[g]
                    /\ vals'[t].slots[g].cap = cap
                    /\ vals'[t].slots[g].ref = vals[i].slots[g].ref
                    /\ vals'[r] = s[r]
                    /\ \A f \in Fields \ {g} :
                          vals'[r].slots[f].cap = vals[i].slots[f].cap ]_vars

\* C6 witness: the reference returned by borrow_<field>_mut is alive next
\* to its rest, which still holds Mut on another field.
C6_Witness ==
    \E t \in LiveIds, r \in LiveIds, g \in Fields :
        /\ vals[t].half = "field" /\ vals[t].slots[g].cap = "Mut"
        /\ vals[r].half = "rest" /\ vals[r].src = vals[t].src /\ r = t + 1
        /\ vals[r].slots[g].cap = "Hidden"
        /\ \E f \in Fields \ {g} : vals[r].slots[f].cap = "Mut"

\* C9. Identity narrowing: partial_borrow is accepted only for a target that
\* differs from the source in some field, so it rejects the target equal to
\* the source, which partial_borrow_or_eq accepts.
C9_IdentityRejected ==
    \A i \in UsableIds : (IsStruct(vals, i) /\ Top(vals) + 1 \in Ids) =>
        /\ \A req \in CapVectors :
              (ENABLED PartialBorrow(i, req)) => NotEq(CapsOf(vals[i]), req)
        /\ ENABLED PartialBorrowOrEq(i, CapsOf(vals[i]))

\* main's assertions.
AllDetached ==
    /\ \A i \in 1..Len(mem["nodes"]) :
          mem["nodes"][i].outputs = <<>> /\ mem["nodes"][i].inputs = <<>>
    /\ \A e \in 1..Len(mem["edges"]) :
          mem["edges"][e].from = None /\ mem["edges"][e].to = None

\* C8. Referent preservation: every slot of a narrowed value that is not
\* Hidden refers to the field of the original struct its source slot
\* refers to, which is the field it is named after; and when
\* detach_all_nodes(&mut graph.as_refs_mut()) has returned, every node's
\* outputs and inputs are empty, every edge's from and to are None, and the
\* owner has its graph back.
C8_Referents ==
    /\ \A i \in LiveIds : \A f \in Fields :
          vals[i].slots[f].cap # "Hidden" =>
              /\ vals[i].slots[f].ref = f
              /\ (vals[i].half # "root" /\ Live(vals, vals[i].src))
                    => vals[i].slots[f].ref = vals[vals[i].src].slots[f].ref
    /\ pc # "panicked"
    /\ pc = "done" => (AllDetached /\ ~Borrowed(vals, OwnerLt))

\* C8 witness: the example graph (the cycle of three nodes and three edges)
\* after detach_all_nodes has returned.
C8_Witness ==
    /\ pc = "done" /\ q.to = Cycle3
    /\ Len(mem["nodes"]) = 3 /\ Len(mem["edges"]) = 3
    /\ AllDetached

\* C7. Round trip: narrowing the value of as_refs_mut to Mut on every field
\* gives a target with the capability and the referent of as_refs_mut's
\* value in every field, and a rest that is Hidden in every field.
C7_RoundTrip ==
    \A i \in LiveIds :
        (/\ vals[i].half \in {"target", "rest"}
         /\ vals[vals[i].src].half = "root"
         /\ vals[i].req = AllCaps("Mut"))
        => \A f \in Fields :
              IF vals[i].half = "target"
              THEN /\ vals[i].slots[f].cap = vals[vals[i].src].slots[f].cap
                   /\ vals[i].slots[f].ref = vals[vals[i].src].slots[f].ref
              ELSE vals[i].slots[f].cap = "Hidden"

\* C7 witness: both halves of such a narrowing are alive.
C7_Witness ==
    \E t \in LiveIds, r \in LiveIds :
        /\ vals[t].half = "target" /\ vals[r].half = "rest"
        /\ vals[t].src = vals[r].src /\ vals[vals[t].src].half = "root"
        /\ vals[t].req = AllCaps("Mut") /\ vals[r].req = AllCaps("Mut")

\* The target that asks for nodes only, with capability c.
NodesOnly(c) == [f \in Fields |-> IF f = "nodes" THEN c ELSE "Hidden"]

\* The scenario of C10 has run to its end: the callee was handed
\* p!(&<mut *> Graph), narrowed it (tracked) to nodes with capability c, and
\* did nothing but read nodes.
NodesReadOnly(c) ==
    /\ pc = "done" /\ q.phase = "track" /\ q.track
    /\ q.req = NodesOnly(c)
    /\ q.did = [f \in Fields |-> IF f = "nodes" THEN "Ref" ELSE "None"]

Listed(s) == {s[k] : k \in 1..Len(s)}

InnerBlock ==
    [text |-> "Warning [inner]:\n    Borrowed as mut but used as ref: nodes.\n    To fix the issue, use: &<nodes>.",
     loc |-> "inner", not_used |-> <<>>, used_as_ref |-> <<"nodes">>,
     fix |-> <<"nodes">>]

OuterBlock ==
    [text |-> "Warning [outer]:\n    Borrowed but not used: edges, groups.\n    To fix the issue, use: &<mut nodes>.",
     loc |-> "outer", not_used |-> <<"edges", "groups">>, used_as_ref |-> <<>>,
     fix |-> <<"mut nodes">>]

OnlyBlock ==
    [text |-> "Warning [outer]:\n    Borrowed but not used: edges, groups.\n    Borrowed as mut but used as ref: nodes.\n    To fix the issue, use: &<nodes>.",
     loc |-> "outer", not_used |-> <<"edges", "groups">>, used_as_ref |-> <<"nodes">>,
     fix |-> <<"nodes">>]

ReportsAt(loc) == {k \in 1..Len(data) : data[k].loc = loc}

Sentinel == [text |-> "Too many warnings, suppressing further ones."]

CapBlock ==
    [text |-> "Warning [loop]:\n    Borrowed but not used: edges.\n    To fix the issue, use: &<mut nodes>.",
     loc |-> "loop", not_used |-> <<"edges">>, used_as_ref |-> <<>>,
     fix |-> <<"mut nodes">>]

Min(a, b) == IF a <= b THEN a ELSE b

\* The lines of stderr that are warning messages, and those that are the
\* "Too many warnings" line.
WarningLines == {k \in 1..Len(stderr) : stderr[k] # Sentinel}
SentinelLines == {k \in 1..Len(stderr) : stderr[k] = Sentinel}

\* All discrepancies so far were emitted by thread t.
OnlyThread(t) == \A u \in Threads \ {t} : q.drops[u] = 0

C13_PerProcess ==
    q.phase = "cap" => Cardinality(WarningLines) <= MAX_WARNING_COUNT

\* C13 amended. The cap is per thread: each thread prints its first 99
\* warnings and then the "Too many warnings" line once, so the process
\* prints at most 99 warnings and one such line for each of its threads.
C13_PerThread ==
    q.phase = "cap" =>
        /\ Cardinality(WarningLines)
              = SumOver([t \in Threads |-> Min(WARNING_COUNT[t], MAX_WARNING_COUNT - 1)],
                        Threads)
        /\ Cardinality(SentinelLines)
              = Cardinality({t \in Threads : WARNING_COUNT[t] >= MAX_WARNING_COUNT})
        /\ Cardinality(WarningLines) <= (MAX_WARNING_COUNT - 1) * Cardinality(Threads)

\* C13 witness: two threads have emitted discrepancies, one of them past its
\* cap, and more than 100 warnings were printed.
C13_Witness ==
    /\ q.phase = "cap"
    /\ \E t \in Threads, u \in Threads :
          t # u /\ WARNING_COUNT[t] > MAX_WARNING_COUNT /\ WARNING_COUNT[u] > 0
    /\ Cardinality(WarningLines) > MAX_WARNING_COUNT

\* The fields of the map dropped that were requested at a higher level
\* than was needed, and the fields something was needed of.
OverRequested == {k \in 1..Len(q.map) : UsageOrd(q.map[k].requested) > UsageOrd(q.map[k].needed)}
Used == {k \in 1..Len(q.map) : q.map[k].needed # "None"}

Dropped1 == q.phase = "report" /\ pc = "dropped"

\* C14 as stated: when the tracker data is dropped and some recorded field
\* has requested > needed, exactly one warning is printed (the cap
\* allowing); when none has, nothing is printed.
C14_OnePerDiscrepancy ==
    (Dropped1 /\ q.prior + 1 < MAX_WARNING_COUNT) =>
        Cardinality(WarningLines) = IF OverRequested # {} THEN 1 ELSE 0

\* C14 amended. When the tracker data is dropped, exactly one warning is
\* printed if some recorded field has requested > needed and some recorded
\* field was used at all (and the cap allows); nothing is printed for the
\* instance otherwise; never more than one warning per instance.
C14_OneReport ==
    Dropped1 =>
        /\ Cardinality(WarningLines)
              = IF OverRequested # {} /\ Used # {} /\ q.prior + 1 < MAX_WARNING_COUNT
                THEN 1 ELSE 0
        /\ Cardinality(WarningLines) <= 1
        /\ (OverRequested = {} \/ Used = {}) =>
              (stderr = <<>> /\ WARNING_COUNT[MainThread] = q.prior)

\* C14 witness: a map with two over-requested fields and one used field was
\* dropped under the cap: one warning names them all.
C14_Witness ==
    /\ Dropped1 /\ q.prior = 0
    /\ Cardinality(OverRequested) = 2 /\ Cardinality(Used) = 2
    /\ Len(stderr) = 1 /\ stderr[1].loc = "site"
    /\ Len(stderr[1].not_used) + Len(stderr[1].used_as_ref) = 2

\* The labels of the records K of the map dropped, sorted by name.
SortedLabels(K) ==
    CHOOSE ls \in [1..Cardinality(K) -> Fields] :
        /\ {ls[i] : i \in 1..Cardinality(K)} = {q.map[k].label : k \in K}
        /\ \A i \in 1..Cardinality(K), j \in 1..Cardinality(K) :
              i < j => LabelOrd(ls[i]) < LabelOrd(ls[j])

\* C15. Classification: in the report printed for the map dropped, the
\* "Borrowed but not used" list is exactly the fields with requested >
\* needed and needed = None, the "Borrowed as mut but used as ref" list
\* exactly those with requested > needed and needed not None (which are
\* requested Mut and needed Ref); a field with needed >= requested is in
\* neither, no field is in both, and both lists are sorted by name.
C15_Classification ==
    \A b \in {stderr[k] : k \in WarningLines} : Dropped1 =>
        /\ b.not_used = SortedLabels({k \in OverRequested : q.map[k].needed = "None"})
        /\ b.used_as_ref = SortedLabels({k \in OverRequested : q.map[k].needed # "None"})
        /\ \A k \in OverRequested : q.map[k].needed # "None" =>
              (q.map[k].requested = "Mut" /\ q.map[k].needed = "Ref")
        /\ Listed(b.not_used) \cap Listed(b.used_as_ref) = {}
        /\ \A k \in 1..Len(q.map) \ OverRequested :
              q.map[k].label \notin Listed(b.not_used) \cup Listed(b.used_as_ref)
        /\ b.text = "Warning [site]:" \o WarningBody(b.not_used, b.used_as_ref)
                       \o "\n    To fix the issue, use: &<" \o Join(b.fix, ", ") \o ">."

\* C15 witness: records made in the order nodes, groups, edges, with groups
\* and edges unused and nodes requested Mut and used as Ref, were reported.
C15_Witness ==
    /\ Dropped1 /\ Len(stderr) = 1 /\ stderr[1] # Sentinel
    /\ q.map = <<[label |-> "nodes", requested |-> "Mut", needed |-> "Ref"],
                 [label |-> "groups", requested |-> "Mut", needed |-> "None"],
                 [label |-> "edges", requested |-> "Ref", needed |-> "None"]>>
    /\ stderr[1].not_used = <<"edges", "groups">>
    /\ stderr[1].used_as_ref = <<"nodes">>

InUse == q.phase = "use"

\* The values alive at each point of the program.
LiveAt(at) ==
    CASE at = "build" -> {}
      [] at = "main" -> {}
      [] at = "call" -> {RootVar}
      [] at = "callee" -> {RootVar, OuterArg}
      [] at = "body" -> {RootVar, OuterArg, InnerVar, RestVar}
      [] at = "returned" -> {RootVar, OuterArg}
      [] at = "end" -> {RootVar}
      [] at = "done" -> {}

\* Value i holds exactly the capabilities caps, each on the field named.
Holds(i, caps) ==
    \A f \in Fields :
        /\ vals[i].slots[f].cap = caps[f]
        /\ caps[f] # "Hidden" => vals[i].slots[f].ref = f

\* The blocks printed for call site loc.
BlocksAt(loc) == {k \in WarningLines : stderr[k].loc = loc}

C17_RootSilent ==
    (InUse /\ q.usage_tracking_enabled) =>
        /\ RootVar \in LiveIds =>
              \A k \in 1..Len(decl) : trackers[RootVar].fields[k].disabled
        /\ \A k \in ReportsAt("main") : data[k].map = <<>>
        /\ BlocksAt("main") = {}

\* C17 witness: a narrowing taken from the value of as_refs_mut has warned,
\* the value itself, one field of which no narrowing asked for, was dropped.
C17_Witness ==
    /\ InUse /\ q.usage_tracking_enabled /\ pc = "done"
    /\ q.req1["edges"] = "Hidden"
    /\ BlocksAt("outer") # {}
    /\ \E k \in ReportsAt("main") : data[k].rc = 0

C19_Untracked ==
    (InUse /\ q.usage_tracking_enabled) =>
        /\ (InnerVar \in LiveIds /\ vals[InnerVar].half # "field") =>
              \A k \in 1..Len(decl) :
                  trackers[InnerVar].fields[k].enabled = ~q.has_underscore
        /\ q.has_underscore =>
              /\ \A k \in ReportsAt("inner") : data[k].map = <<>>
              /\ BlocksAt("inner") = {}

\* C19 witness: a target of type p!(_&<mut *> Graph) was dropped with none
\* of its fields used or marked; nothing was printed.
C19_Witness ==
    /\ InUse /\ q.usage_tracking_enabled /\ pc = "returned"
    /\ q.has_underscore /\ ~q.touched /\ ~q.marked
    /\ q.req1 = AllCaps("Mut") /\ q.req2 = AllCaps("Mut")
    /\ q.prior = 0 /\ stderr = <<>>
    /\ \E k \in ReportsAt("inner") : data[k].rc = 0

InSelect == q.phase = "select"

\* The selectors of list l that are `*` or name field f.
Matching(l, f) == {i \in 1..Len(l) : l[i].kind = "star" \/ (l[i].kind = "ident" /\ l[i].ident = f)}

Last(S) == CHOOSE i \in S : \A j \in S : j <= i

\* The capability and lifetime the list l, read left to right, gives field f.
Resolved(l, lifetime, f) ==
    IF Matching(l, f) = {} THEN [cap |-> "Hidden", lt |-> "none"]
    ELSE [cap |-> IF l[Last(Matching(l, f))].is_mut THEN "Mut" ELSE "Ref",
          lt  |-> IF l[Last(Matching(l, f))].lifetime # "none"
                  THEN l[Last(Matching(l, f))].lifetime
                  ELSE IF lifetime = "none" THEN "'_" ELSE lifetime]

\* C21. Selector resolution: in the type p! produces, the capability of
\* each field is the one of the last selector written that is `*` or names
\* the field (Mut with `mut`, else Ref, with the selector's lifetime or else
\* the default one), and Hidden if there is no such selector.
C21_LastWins ==
    (InSelect /\ pc = "type") =>
        \A f \in Fields : q.type[f] = Resolved(q.input, q.lifetime, f)

\* C21 witness: <mut nodes, 'a *, mut edges> gives nodes Ref (the star
\* overrides), edges Mut (overrides the star), groups Ref, each with the
\* lifetime written or the default.
C21_Witness ==
    /\ InSelect /\ pc = "type"
    /\ Len(q.input) = 3
    /\ q.input[1].kind = "ident" /\ q.input[1].ident = "nodes" /\ q.input[1].is_mut
    /\ q.input[2].kind = "star" /\ ~q.input[2].is_mut /\ q.input[2].lifetime = "'a"
    /\ q.input[3].kind = "ident" /\ q.input[3].ident = "edges" /\ q.input[3].is_mut
    /\ q.input[3].lifetime = "none" /\ q.lifetime = "'t"
    /\ q.type["nodes"] = [cap |-> "Ref", lt |-> "'a"]
    /\ q.type["edges"] = [cap |-> "Mut", lt |-> "'t"]
    /\ q.type["groups"] = [cap |-> "Ref", lt |-> "'a"]

\* The selectors of list l that are `*` or mention field f, `!f` included.
Mentioning(l, f) == {i \in 1..Len(l) : l[i].kind = "star" \/ l[i].ident = f}

\* The capability a list with `!` selectors gives field f: that of the last
\* selector mentioning it, Hidden if that one is `!f`.
ResolvedExcluding(l, f) ==
    IF Mentioning(l, f) = {} THEN "Hidden"
    ELSE IF l[Last(Mentioning(l, f))].kind = "not" THEN "Hidden"
    ELSE IF l[Last(Mentioning(l, f))].is_mut THEN "Mut" ELSE "Ref"

\* C22. A `!field` selector excludes the field: a list with such selectors
\* is accepted, and in the type produced the field is Hidden unless a later
\* selector gives it back; so <mut *, edges, !groups> gives nodes Mut, edges
\* Ref, groups Hidden.
C22_Excludes ==
    InSelect =>
        /\ pc # "error"
        /\ pc = "type" => \A f \in Fields : q.type[f].cap = ResolvedExcluding(q.input, f)

\* Usage tracking is compiled into the program that ran.
CompiledIn == trackers[RootVar] # NoTrackers

\* C23. Build-time choice of tracking: the tracking code is compiled in
\* exactly when (the profile is not release or the usage_tracking feature is
\* set) and the no_usage_tracking feature is not set: on by default in
\* debug, off by default in release, the opt-in feature turns it on in
\* release, the opt-out feature turns it off in debug.
C23_BuildChoice ==
    (InUse /\ pc # "build") =>
        /\ q.usage_tracking_enabled <=>
              /\ q.env.PROFILE # "release" \/ q.env.CARGO_FEATURE_USAGE_TRACKING
              /\ ~q.env.CARGO_FEATURE_NO_USAGE_TRACKING
        /\ RootVar \in LiveIds => (CompiledIn <=> q.usage_tracking_enabled)
        /\ ~q.env.CARGO_FEATURE_USAGE_TRACKING /\ ~q.env.CARGO_FEATURE_NO_USAGE_TRACKING
              => (q.usage_tracking_enabled <=> q.env.PROFILE = "debug")
        /\ q.env.PROFILE = "release" /\ q.env.CARGO_FEATURE_USAGE_TRACKING
              /\ ~q.env.CARGO_FEATURE_NO_USAGE_TRACKING => q.usage_tracking_enabled
        /\ q.env.PROFILE = "debug" /\ q.env.CARGO_FEATURE_NO_USAGE_TRACKING
              => ~q.usage_tracking_enabled

\* C23 witness: a debug build with the opt-out feature (and the opt-in
\* feature as well) ran as_refs_mut with no tracker made.
C23_Witness ==
    /\ InUse /\ pc = "call"
    /\ q.env.PROFILE = "debug"
    /\ q.env.CARGO_FEATURE_NO_USAGE_TRACKING /\ q.env.CARGO_FEATURE_USAGE_TRACKING
    /\ ~q.usage_tracking_enabled /\ ~CompiledIn

\* The field trackers value i holds.
FieldTrackers(i) ==
    IF trackers[i].st = "live" THEN {trackers[i].fields[k] : k \in 1..Len(decl)}
    ELSE IF trackers[i].st = "field" THEN {trackers[i].field}
    ELSE {}

\* The UsageTrackerData k was dropped, which is when its report is emitted.
Emitted(k) == data[k].rc = 0

\* The fields data k has a record of.
Recorded(k) == {data[k].map[j].label : j \in 1..Len(data[k].map)}

\* The narrowings made in the callee, from the callee's argument.
InnerReports == ReportsAt("inner") \cup ReportsAt("field")
InnerBlocks == BlocksAt("inner") \cup BlocksAt("field")

\* C24. Last acquired, first dropped: the report of a narrowing is emitted
\* after the reports of the narrowings derived from it (main's value after
\* the callee's argument, that after the callee's target, a Field moved out
\* by borrow_<field> included), and after each field tracker the narrowing
\* made was dropped and has registered its record: nothing is printed for a
\* narrowing before its report is emitted, no tracker alive points to an
\* emitted report, and an emitted report has one record per field requested.
C24_DropOrder ==
    (InUse /\ q.usage_tracking_enabled) =>
        /\ \A k \in ReportsAt("outer") : Emitted(k) =>
              /\ pc \in {"end", "done"}
              /\ \A j \in InnerReports : Emitted(j)
        /\ \A k \in ReportsAt("main") : Emitted(k) =>
              /\ pc = "done"
              /\ \A j \in ReportsAt("outer") : Emitted(j)
        /\ \A a \in BlocksAt("outer"), b \in InnerBlocks : b < a
        /\ \A loc \in {"main", "outer", "inner", "field", "derive"} :
              Cardinality(BlocksAt(loc)) <= Cardinality({k \in ReportsAt(loc) : Emitted(k)})
        /\ \A i \in Ids : \A ft \in FieldTrackers(i) :
              ft.tracker # NoTracker => ~Emitted(ft.tracker)
        /\ \A k \in ReportsAt("outer") : Emitted(k) =>
              /\ Recorded(k) = {f \in Fields : q.req1[f] # "Hidden"}
              /\ Len(data[k].map) = Cardinality(Recorded(k))
        /\ \A k \in InnerReports : (Emitted(k) /\ ~q.has_underscore) =>
              /\ Recorded(k) = {f \in Fields : q.req2[f] # "Hidden"}
              /\ Len(data[k].map) = Cardinality(Recorded(k))

\* C24 witness: the Field moved out by borrow_nodes_mut was only read and its
\* report was printed first; then the report of the callee's argument, which
\* had asked for edges as well, was printed.
C24_Witness ==
    /\ InUse /\ q.usage_tracking_enabled /\ pc = "done"
    /\ Len(stderr) = 2
    /\ stderr[1].loc = "field" /\ stderr[1].used_as_ref = <<"nodes">>
    /\ stderr[2].loc = "outer" /\ stderr[2].not_used = <<"edges">>

\* The needed usage recorded so far in the tracker of field f of value i.
Cell(i, f) == needed[trackers[i].fields[Pos(f)].needed_usage]

\* The target was an enabled tracker of f: f was requested in a type
\* written without `_`.
EnabledTarget(f) == q.req2[f] # "Hidden" /\ ~q.has_underscore

\* The target's tracker of f was dropped with less needed than requested.
ChildDiscrepancy(f) ==
    EnabledTarget(f) /\ UsageOrd(q.used.target[f]) < UsageOrd(q.req2[f])

\* The highest usage told to the trackers of f of the target and the rest.
Forwarded(f) == UsageMax(q.used.target[f], q.used.rest[f])

\* The record of field f in data k.
RecordOf(k, f) ==
    data[k].map[CHOOSE j \in 1..Len(data[k].map) : data[k].map[j].label = f]

InSeq(x, sq) == \E j \in 1..Len(sq) : sq[j] = x

\* The callee's target and rest were dropped, its argument was not.
ChildrenDropped == pc = "returned"

\* C25. Child discrepancy masks the parent: once the callee's target and
\* rest were dropped, the needed usage of field f in the callee's argument
\* is Mut if the target's tracker of f was enabled and was dropped with
\* less needed than requested, and otherwise exactly what target and rest
\* forwarded (a disabled or switched-off tracker forces nothing); so the
\* report of the argument, dropped later, records Mut for a field with a
\* child discrepancy and lists it neither as unused nor as used as ref.
C25_Masking ==
    (InUse /\ q.usage_tracking_enabled) =>
        /\ ChildrenDropped => \A f \in Fields :
              Cell(OuterArg, f) = IF ChildDiscrepancy(f) THEN "Mut" ELSE Forwarded(f)
        /\ pc \in {"end", "done"} => \A f \in Fields : ChildDiscrepancy(f) =>
              /\ \A k \in ReportsAt("outer") : RecordOf(k, f).needed = "Mut"
              /\ \A b \in BlocksAt("outer") :
                    ~InSeq(f, stderr[b].not_used) /\ ~InSeq(f, stderr[b].used_as_ref)

\* C25 witness: the target asked for `mut nodes, mut edges`, only read nodes
\* and never touched edges; its report was printed, and the argument, which
\* had asked for the same, was dropped after it without a report.
C25_Witness ==
    /\ InUse /\ q.usage_tracking_enabled /\ pc = "end"
    /\ q.req1 = AllCaps("Mut") /\ q.req2 = AllCaps("Mut") /\ ~q.has_underscore
    /\ q.used.target["nodes"] = "Ref" /\ q.used.target["edges"] = "None"
    /\ BlocksAt("inner") # {} /\ BlocksAt("outer") = {}
    /\ \E k \in ReportsAt("outer") : Emitted(k) /\ RecordOf(k, "edges").needed = "Mut"

UsageGeq(a, b) == UsageOrd(a) >= UsageOrd(b)

\* C26. Usage is forwarded up the acquisition chain: once the callee's
\* target and rest were dropped, the needed usage of each field in the
\* callee's argument is at least what was registered through the target
\* (enabled or switched off) and through the rest (disabled); once the
\* argument was dropped too, the same holds of main's value; the record the
\* argument makes of the field has at least that usage, and a field used
\* through a descendant is not reported as unused for the argument.
C26_Forwarding ==
    (InUse /\ q.usage_tracking_enabled) =>
        /\ ChildrenDropped => \A f \in Fields : UsageGeq(Cell(OuterArg, f), Forwarded(f))
        /\ pc = "end" => \A f \in Fields : UsageGeq(Cell(RootVar, f), Forwarded(f))
        /\ pc \in {"end", "done"} => \A f \in Fields :
              /\ \A k \in ReportsAt("outer") : q.req1[f] # "Hidden" =>
                    UsageGeq(RecordOf(k, f).needed, Forwarded(f))
              /\ Forwarded(f) # "None" =>
                    \A b \in BlocksAt("outer") : ~InSeq(f, stderr[b].not_used)

\* C26 witness: the callee narrowed its `mut nodes, mut edges` to `mut
\* nodes`, wrote edges through the rest only and never touched nodes; the
\* argument's report says nodes is unused and has edges recorded as Mut.
C26_Witness ==
    /\ InUse /\ q.usage_tracking_enabled /\ pc = "end" /\ q.has_underscore
    /\ q.req1 = AllCaps("Mut") /\ q.req2["nodes"] = "Mut" /\ q.req2["edges"] = "Hidden"
    /\ q.used.rest["edges"] = "Mut" /\ q.used.target["nodes"] = "None" /\ ~q.marked
    /\ \E b \in BlocksAt("outer") :
          stderr[b].not_used = <<"nodes">> /\ stderr[b].fix = <<"mut edges">>

\* No cell of needed usage is freed or lowered by the step.
NoCellLowered ==
    /\ Len(needed') >= Len(needed)
    /\ \A c \in 1..Len(needed) : UsageGeq(needed'[c], needed[c])

\* A value i alive with trackers, and the cell of its field f.
Tracked(i) == i \in LiveIds /\ trackers[i].st # "none"
CellOf(i, f) ==
    IF trackers[i].st = "field" THEN needed[trackers[i].field.needed_usage] ELSE Cell(i, f)

\* The needed usage of the trackers of target and rest is the maximum of
\* what was registered through them.
IsRunningMax ==
    (InUse /\ q.usage_tracking_enabled) =>
        /\ Tracked(InnerVar) => \A f \in Fields :
              (trackers[InnerVar].st = "field" => q.req2[f] # "Hidden") =>
                  CellOf(InnerVar, f) = q.used.target[f]
        /\ Tracked(RestVar) => \A f \in Fields : CellOf(RestVar, f) = q.used.rest[f]

NeededOf(l) == q.map[CHOOSE k \in 1..Len(q.map) : q.map[k].label = l].needed

\* The selectors that ask for what was needed of the fields used, by name.
FixSelectors ==
    [i \in 1..Cardinality(Used) |->
        IF NeededOf(SortedLabels(Used)[i]) = "Mut"
        THEN "mut " \o SortedLabels(Used)[i]
        ELSE SortedLabels(Used)[i]]

\* C28. Fix suggestion: the "To fix the issue, use: &<...>" line of a report
\* lists exactly the recorded fields with needed usage not None, each once,
\* sorted by name, as `mut f` when needed is Mut and as `f` when it is Ref;
\* and when every recorded field has needed None nothing is printed.
C28_FixSuggestion ==
    Dropped1 =>
        /\ \A k \in WarningLines :
              /\ stderr[k].fix = FixSelectors
              /\ stderr[k].text = "Warning [site]:"
                    \o WarningBody(stderr[k].not_used, stderr[k].used_as_ref)
                    \o "\n    To fix the issue, use: &<" \o Join(FixSelectors, ", ") \o ">."
        /\ Used = {} => WarningLines = {}

\* C28 witness: with groups unused, edges requested and needed as Mut and
\* nodes requested as Mut and needed as Ref, the line printed is
\* "To fix the issue, use: &<mut edges, nodes>."
C28_Witness ==
    /\ Dropped1 /\ Len(stderr) = 1 /\ stderr[1] # Sentinel
    /\ Len(q.map) = 3
    /\ \E k \in 1..3 : q.map[k] = [label |-> "groups", requested |-> "Ref", needed |-> "None"]
    /\ \E k \in 1..3 : q.map[k] = [label |-> "edges", requested |-> "Mut", needed |-> "Mut"]
    /\ \E k \in 1..3 : q.map[k] = [label |-> "nodes", requested |-> "Mut", needed |-> "Ref"]
    /\ stderr[1].fix = <<"mut edges", "nodes">>
    /\ stderr[1].text = "Warning [site]:\n    Borrowed but not used: groups.\n    Borrowed as mut but used as ref: nodes.\n    To fix the issue, use: &<mut edges, nodes>."

\* The usage the narrowing made at loc requested of field f.
RequestedAt(loc, f) == IF loc = "outer" THEN q.req1[f] ELSE q.req2[f]

\* C29. The fix suggestion is minimal and usable: no report suggests `mut f`
\* for a field f its narrowing had requested as Ref (or not at all), also
\* after a child narrowing of the field was dropped with a discrepancy.
C29_Minimal ==
    (InUse /\ q.usage_tracking_enabled) =>
        \A b \in BlocksAt("outer") \cup InnerBlocks : \A f \in Fields :
            InSeq("mut " \o f, stderr[b].fix) => RequestedAt(stderr[b].loc, f) = "Mut"

\* What the k-th call of warning on a thread prints after what was printed.
AfterCall(k) ==
    IF k < 100 THEN Append(stderr, CapBlock)
    ELSE IF k = 100 THEN Append(stderr, Sentinel)
    ELSE stderr

\* Thread t makes its next call of warning in this step.
Calls(t) == WARNING_COUNT'[t] = WARNING_COUNT[t] + 1

\* C30. The warning limiter, call by call: the k-th call of warning on a
\* thread prints its message iff k < 100, the 100th call prints "Too many
\* warnings, suppressing further ones." in its place, every later call
\* prints nothing; so a thread alone has printed min(n, 99) warnings after n
\* calls and, from the 100th on, one sentinel: min(n, 100) lines, never more
\* than 100.
C30_Limiter ==
    [][q.phase = "cap" =>
          /\ \E t \in Threads :
                /\ Calls(t)
                /\ stderr' = AfterCall(WARNING_COUNT'[t])
                /\ \A u \in Threads \ {t} : WARNING_COUNT'[u] = WARNING_COUNT[u]
          /\ \A t \in Threads : OnlyThread(t)' =>
                /\ Len(stderr') = Min(WARNING_COUNT'[t], 100)
                /\ Cardinality(WarningLines') = Min(WARNING_COUNT'[t], 99)
                /\ Len(stderr') <= 100]_vars

\* C30 witness: after 101 calls on one thread, 99 warnings and then the
\* sentinel are on stderr, 100 lines.
C30_Witness ==
    /\ q.phase = "cap" /\ OnlyThread(MainThread) /\ WARNING_COUNT[MainThread] = 101
    /\ Len(stderr) = 100 /\ stderr[99] = CapBlock /\ stderr[100] = Sentinel

====
